---------------------------- MODULE Spec2Model ----------------------------
(***************************************************************************)
(* The directory-size visualizer of directory_svg_generator.py:            *)
(* DirectorySVGGenerator scans a directory tree (scan_directory_sizes,     *)
(* calculate_dir_size), builds the node mapping (build_directory_tree,     *)
(* get_color_for_size, format_size, _generate_id), generates the document  *)
(* (generate_interactive_svg) and writes it (save_svg).                    *)
(*                                                                         *)
(* Texts the program compares or sorts (directory names) are sequences of  *)
(* code points; texts the program only produces (colors, formatted sizes)  *)
(* are sequences of one-character strings.  A path is the sequence of      *)
(* names below the scanned root; <<>> is the root directory itself.        *)
(***************************************************************************)
EXTENDS Integers, Sequences, FiniteSets, TLC

VARIABLES
    fsDirs,          \* the directories of the filesystem snapshot (paths)
    fsFiles,         \* its files: records [dir, name, size, ok]
    fsDenied,        \* directories whose listing raises PermissionError
    fsOrder,         \* per directory, the order in which it lists its subdirectories
    dir_sizes,       \* self.dir_sizes
    min_dir_size,    \* self.min_dir_size
    max_dir_size,    \* self.max_dir_size
    min_color,       \* self.min_color
    mid_color,       \* self.mid_color
    max_color,       \* self.max_color
    node_objs,       \* the node_data dicts, by the directory whose call made them
    directory_tree,  \* self.directory_tree: id -> the node_data dict it refers to
    html,            \* what generate_interactive_svg returned
    output_file,     \* the content of the output document on disk
    scan_stack,      \* pending calls of scan_directory_sizes, innermost first
    pc,              \* where save_svg is
    error,           \* the exception that left save_svg, if one did
    run,             \* 1 in the first run of the program, 2 in the second
    first_tree,      \* the node mapping the first run built
    arg,             \* the argument of a direct call of a pure method
    result,          \* what that call returned
    nodeStates,      \* the script's nodeStates: id -> [expanded, visible]
    highlight,       \* treeData[id].highlight, for the ids that have one
    layout,          \* treeData[id].level, .x and .y, for the ids that have them
    verticalGap,     \* the script's verticalGap
    horizontalGap,   \* the script's horizontalGap
    connections,     \* the paths in the group "connections"
    nodes,           \* the groups of class "node" in the group "nodes"
    svg_size,        \* the viewBox, width and height of the svg element
    event,           \* the event the page handled last
    game_name,       \* the arguments of create_game_directory_structure
    root_directory,
    engine,
    platforms,
    game_dir,        \* its game_dir
    disk,            \* the directories and the files of the disk it works on
    todo,            \* the steps it has not done yet
    currentZoom,     \* the script's currentZoom, in tenths
    stdout,          \* what main has printed, one text per print
    exit_code        \* what main returned, once it has

vars == <<fsDirs, fsFiles, fsDenied, fsOrder, dir_sizes, min_dir_size, max_dir_size,
          min_color, mid_color, max_color, node_objs, directory_tree, html,
          output_file, scan_stack, pc, error, run, first_tree, arg, result,
          nodeStates, highlight, layout, verticalGap, horizontalGap, connections,
          nodes, svg_size, event, game_name, root_directory, engine, platforms,
          game_dir, disk, todo, currentZoom, stdout, exit_code>>

fsVars == <<fsDirs, fsFiles, fsDenied, fsOrder>>
rampVars == <<min_color, mid_color, max_color>>
callVars == <<arg, result>>
scaffoldVars == <<game_name, root_directory, engine, platforms, game_dir, disk, todo>>
clientVars == <<nodeStates, highlight, layout, verticalGap, horizontalGap, connections,
                nodes, svg_size, event, currentZoom>>
mainVars == <<stdout, exit_code>>

----------------------------------------------------------------------------
(* Bounds of the model *)

MaxDirs == 4          \* directories in a snapshot, the root included
MaxFiles == 2         \* files in a snapshot
IdSpace == 19         \* number of distinct ids (the program has 16^8)
MaxColorSize == 5     \* largest min_dir_size of a direct call of get_color_for_size
MaxFormatSize == 2100 \* format_size is called on every size up to this one

----------------------------------------------------------------------------
(* Program constants *)

NODE_WIDTH == 220
NODE_HEIGHT == 40
VERTICAL_GAP == 45
HORIZONTAL_GAP == 45
MIN_COLOR == <<0, 128, 0>>
MID_COLOR == <<255, 255, 0>>
MAX_COLOR == <<200, 0, 0>>

svg_width == 1600
svg_height == 1200

\* float('inf'), the value of min_dir_size while no size > 0 has been seen
Inf == 2147483647

\* Python's None
None == "None"

----------------------------------------------------------------------------
(* Sequences and sets *)

RECURSIVE SumSet(_)
SumSet(S) ==
    IF S = {} THEN 0
    ELSE LET x == CHOOSE y \in S : TRUE IN x.size + SumSet(S \ {x})

RECURSIVE SeqOfSet(_)
SeqOfSet(S) ==
    IF S = {} THEN <<>>
    ELSE LET x == CHOOSE y \in S : TRUE IN <<x>> \o SeqOfSet(S \ {x})

Range(s) == {s[i] : i \in 1..Len(s)}

Perms(S) == {s \in [1..Cardinality(S) -> S] : Range(s) = S}

RECURSIVE SubsetsUpTo(_, _)
SubsetsUpTo(S, k) ==
    IF k = 0 THEN {{}}
    ELSE LET smaller == SubsetsUpTo(S, k - 1)
         IN smaller \cup {T \cup {x} : T \in smaller, x \in S}

IsPrefix(p, q) == Len(p) <= Len(q) /\ SubSeq(q, 1, Len(p)) = p

\* A maximum that forgets what it had
Max2Latest(a, b) == b

Min2(a, b) == IF a <= b THEN a ELSE b
Max2(a, b) == IF a >= b THEN a ELSE b


----------------------------------------------------------------------------
(* The filesystem snapshot *)

\* Directory names "B" and "a": code point order puts "B" first, an order
\* that ignores case puts "a" first.
Names == {<<66>>, <<97>>}

\* os.path.basename(self.root_dir): "r"
RootName == <<114>>

\* The files a directory may hold: "f" has 1 byte, and os.path.getsize of
\* "h" (4 bytes) raises PermissionError.
FileKinds ==
    { [name |-> <<102>>, size |-> 1, ok |-> TRUE],
      [name |-> <<104>>, size |-> 4, ok |-> FALSE] }

\* The directory trees with exactly k directories
RECURSIVE TreesOfSize(_)
TreesOfSize(k) ==
    IF k = 1 THEN {{<<>>}}
    ELSE UNION {{T \cup {Append(p, n)} : p \in T, n \in Names} :
                  T \in TreesOfSize(k - 1)} \ TreesOfSize(k - 1)

Trees == UNION {TreesOfSize(k) : k \in 1..MaxDirs}

ChildNames(dirs, d) == {n \in Names : Append(d, n) \in dirs}

FilesOf(d) == {f \in fsFiles : f.dir = d}

\* The orders in which the directories ds of the tree dirs can list their
\* subdirectories
RECURSIVE Orders(_, _)
Orders(dirs, ds) ==
    IF ds = {} THEN {<<>>}
    ELSE LET d == CHOOSE x \in ds : TRUE
         IN {(d :> o) @@ rest :
               o \in Perms(ChildNames(dirs, d)), rest \in Orders(dirs, ds \ {d})}

\* A snapshot the program can be started on: a finite tree of directories,
\* at most MaxFiles files in it, at most one directory that cannot be
\* listed, and for every directory the order in which it lists its
\* subdirectories.
InitFS ==
    /\ fsDirs \in Trees
    /\ fsFiles \in SubsetsUpTo({[dir |-> d, name |-> k.name, size |-> k.size, ok |-> k.ok] :
                                  d \in fsDirs, k \in FileKinds}, MaxFiles)
    /\ fsDenied \in {{}} \cup {{d} : d \in fsDirs}
    /\ fsOrder \in Orders(fsDirs, fsDirs)

----------------------------------------------------------------------------
(* The os functions the program calls.  A call that can raise returns      *)
(* [exc |-> the exception's name or None, val |-> its value].              *)

\* os.path.join(directory, item)
join(directory, item) == Append(directory, item)

\* os.path.basename(directory)
basename(directory) ==
    IF directory = <<>> THEN RootName ELSE directory[Len(directory)]

\* A test that every path passes
isdirAlways(path) == TRUE

\* os.path.isdir(path)
isdir(path) == path \in fsDirs

\* os.listdir(directory): the names of its files, then of its
\* subdirectories in the filesystem's order
listdir(directory) ==
    IF directory \in fsDenied
    THEN [exc |-> "PermissionError", val |-> <<>>]
    ELSE [exc |-> None,
          val |-> SeqOfSet({f.name : f \in FilesOf(directory)}) \o fsOrder[directory]]

\* os.path.getsize(file_path)
getsize(f) ==
    IF f.ok THEN [exc |-> None, val |-> f.size]
    ELSE [exc |-> "PermissionError", val |-> 0]

\* A handler that names FileNotFoundError alone
CaughtNotFoundOnly(exc) == exc = "FileNotFoundError"

\* except (PermissionError, FileNotFoundError)
Caught(exc) == exc \in {"PermissionError", "FileNotFoundError"}

\* os.walk(directory) with its default onerror=None: the directories it
\* yields.  A directory whose scandir fails is left out with all below it.
RECURSIVE walk(_)
walk(directory) ==
    IF listdir(directory).exc # None THEN {}
    ELSE {directory} \cup
         UNION {walk(join(directory, n)) : n \in ChildNames(fsDirs, directory)}

----------------------------------------------------------------------------
(* Text *)

DecDigits == <<"0", "1", "2", "3", "4", "5", "6", "7", "8", "9">>
HexDigits == <<"0", "1", "2", "3", "4", "5", "6", "7", "8", "9",
               "a", "b", "c", "d", "e", "f">>

\* str(n) of an int n >= 0
RECURSIVE DecStr(_)
DecStr(n) ==
    IF n < 10 THEN <<DecDigits[n + 1]>>
    ELSE DecStr(n \div 10) \o <<DecDigits[(n % 10) + 1]>>

\* format(n, 'x') of an int n >= 0
RECURSIVE HexStr(_)
HexStr(n) ==
    IF n < 16 THEN <<HexDigits[n + 1]>>
    ELSE HexStr(n \div 16) \o <<HexDigits[(n % 16) + 1]>>

\* f"{v:02x}": at least two characters, zeros after the sign
Format02x(v) ==
    IF v < 0 THEN <<"-">> \o HexStr(-v)
    ELSE IF v < 16 THEN <<"0">> \o HexStr(v)
    ELSE HexStr(v)

\* int(x) of the float x = num / den (den > 0): the fraction is dropped
IntOf(num, den) ==
    IF num >= 0 THEN num \div den ELSE -((-num) \div den)

\* round(num / den, 2) in hundredths: to the nearest, a tie to the even one
RoundHundredths(num, den) ==
    LET q == (num * 100) \div den
        twice == 2 * ((num * 100) % den)
    IN IF twice < den THEN q
       ELSE IF twice > den THEN q + 1
       ELSE IF q % 2 = 0 THEN q ELSE q + 1

\* str(s) of the float s = hundredths / 100: the shortest text that reads
\* back as s, always with a fraction
FloatStr(hundredths) ==
    LET whole == hundredths \div 100
        frac == hundredths % 100
    IN DecStr(whole) \o <<".">> \o
       (IF frac % 10 = 0 THEN <<DecDigits[(frac \div 10) + 1]>>
        ELSE <<DecDigits[(frac \div 10) + 1], DecDigits[(frac % 10) + 1]>>)

----------------------------------------------------------------------------
(* DirectorySVGGenerator: the methods that compute a value *)

\* The bytes of the absolute path: "/r", then "/" and the name, per level
RECURSIVE PathBytes(_)
PathBytes(path) ==
    IF path = <<>> THEN <<47>> \o RootName
    ELSE PathBytes(SubSeq(path, 1, Len(path) - 1)) \o <<47>> \o path[Len(path)]

\* hashlib.md5(path.encode()).hexdigest()[:8] is not computed bit for bit.
\* What is kept of it: a digest of the path's bytes, the same for the same
\* path, into a finite space of ids, so that two paths can have one digest.
RECURSIVE Digest(_)
Digest(bytes) ==
    IF bytes = <<>> THEN 0
    ELSE (Digest(SubSeq(bytes, 1, Len(bytes) - 1)) * 4 + bytes[Len(bytes)]) % IdSpace

\* "node_" + the digest
generate_id(path) == "node_" \o ToString(Digest(PathBytes(path)))

RECURSIVE FloorLog1024(_)
FloorLog1024(n) == IF n < 1024 THEN 0 ELSE 1 + FloorLog1024(n \div 1024)

RECURSIVE Pow1024(_)
Pow1024(i) == IF i = 0 THEN 1 ELSE 1024 * Pow1024(i - 1)

size_names == <<<<"B">>, <<"K", "B">>, <<"M", "B">>, <<"G", "B">>, <<"T", "B">>>>

OverflowError == <<"OverflowError">>

\* format_size(size_bytes), for size_bytes < 1024^3 or float('inf').
\* math.floor(math.log(inf, 1024)) raises OverflowError.
format_size(size_bytes) ==
    IF size_bytes = 0 THEN <<"0", " ", "B">>
    ELSE IF size_bytes = Inf THEN OverflowError
    ELSE LET i == FloorLog1024(size_bytes)
             p == Pow1024(i)
             s == (size_bytes \div p) * 100 + RoundHundredths(size_bytes % p, p)
         IN FloatStr(s) \o <<" ">> \o size_names[i + 1]

\* A channel that moves away from the color it should approach
ChannelAway(a, b, c, fnum, den) == IntOf(a * den - fnum * (b - c), den)

\* One channel of get_color_for_size: int(a + factor * (b - c)), where
\* factor = fnum / den.  The program computes in floats; the quotient here is
\* what it gets when den is a power of two (every intermediate value is then
\* a float without rounding), which is so in every call the model makes.
Channel(a, b, c, fnum, den) == IntOf(a * den + fnum * (b - c), den)

\* '#' and the three channels, each as f"{v:02x}"
ColorText(r, g, b) == <<"#">> \o Format02x(r) \o Format02x(g) \o Format02x(b)

\* get_color_for_size past its first return: normalized_size = num / den,
\* clamped to [0, 1], and the two halves of the ramp
InterpolatedColor(size) ==
    LET den == max_dir_size - min_dir_size
        num == Max2(0, Min2(den, size - min_dir_size))
    IN IF 2 * num <= den
       THEN ColorText(
              Channel(min_color[1], mid_color[1], min_color[1], 2 * num, den),
              Channel(min_color[2], mid_color[2], min_color[2], 2 * num, den),
              Channel(min_color[3], mid_color[3], min_color[3], 2 * num, den))
       ELSE ColorText(
              Channel(mid_color[1], max_color[1], mid_color[1], 2 * num - den, den),
              Channel(mid_color[2], max_color[2], mid_color[2], 2 * num - den, den),
              Channel(mid_color[3], max_color[3], min_color[3], 2 * num - den, den))

\* A first return that answers with the low color
get_color_for_size_low(size) ==
    IF max_dir_size <= min_dir_size \/ min_dir_size = Inf
    THEN ColorText(min_color[1], min_color[2], min_color[3])
    ELSE InterpolatedColor(size)

get_color_for_size(size) ==
    IF max_dir_size <= min_dir_size \/ min_dir_size = Inf
    THEN ColorText(mid_color[1], mid_color[2], mid_color[3])
    ELSE InterpolatedColor(size)

\* A size that leaves out the files of the subdirectories
calculate_dir_size_shallow(directory) ==
    SumSet({[file |-> f,
             size |-> IF Caught(getsize(f).exc) THEN 0 ELSE getsize(f).val] :
              f \in {g \in fsFiles : g.dir = directory /\ listdir(directory).exc = None}})

\* calculate_dir_size(directory): the sizes os.path.getsize returns for the
\* files of the directories os.walk yields; a file whose getsize raises a
\* caught exception adds nothing.
\* os.walk itself raises nothing here, so the outer handler (return 0) is
\* never entered.
calculate_dir_size(directory) ==
    SumSet({[file |-> f,
             size |-> IF Caught(getsize(f).exc) THEN 0 ELSE getsize(f).val] :
              f \in {g \in fsFiles : g.dir \in walk(directory)}})

\* The code point of the lower-case letter of c
Lower(c) == IF c >= 65 /\ c <= 90 THEN c + 32 ELSE c

\* An order that ignores case
RECURSIVE StrLessFold(_, _)
StrLessFold(a, b) ==
    IF a = <<>> THEN b # <<>>
    ELSE IF b = <<>> THEN FALSE
    ELSE IF Lower(Head(a)) # Lower(Head(b)) THEN Lower(Head(a)) < Lower(Head(b))
    ELSE StrLessFold(Tail(a), Tail(b))

\* sorted(names): by code points, a proper prefix first
RECURSIVE StrLess(_, _)
StrLess(a, b) ==
    IF a = <<>> THEN b # <<>>
    ELSE IF b = <<>> THEN FALSE
    ELSE IF Head(a) # Head(b) THEN Head(a) < Head(b)
    ELSE StrLess(Tail(a), Tail(b))

RECURSIVE Insert(_, _)
Insert(x, s) ==
    IF s = <<>> THEN <<x>>
    ELSE IF StrLess(x, Head(s)) THEN <<x>> \o s
    ELSE <<Head(s)>> \o Insert(x, Tail(s))

\* The listing as it came
sorted_as_listed(s) == s

RECURSIVE sorted(_)
sorted(s) == IF s = <<>> THEN <<>> ELSE Insert(Head(s), sorted(Tail(s)))

\* [item for item in items if os.path.isdir(os.path.join(directory, item))]
SubdirItems(directory, items) ==
    SelectSeq(items, LAMBDA item : isdir(join(directory, item)))

\* The end of a try block that left with the outcome tried: a caught
\* exception is dropped (pass), any other goes on to the caller.
EndTry(tried) ==
    IF Caught(tried.exc) THEN [tried EXCEPT !.exc = None] ELSE tried

\* build_directory_tree(directory, parent_id), started with the node dicts
\* objs and the mapping tree (id -> the directory whose dict it refers to).
\* It returns both as it leaves them and the exception it raises, if any.
RECURSIVE build_directory_tree(_, _, _, _), BuildSubdirs(_, _, _, _, _)
build_directory_tree(objs, tree, directory, parent_id) ==
    LET dir_id == generate_id(directory)
        dir_size == IF directory \in DOMAIN dir_sizes THEN dir_sizes[directory] ELSE 0
        node_data == [id |-> dir_id,
                      name |-> basename(directory),
                      path |-> directory,
                      size |-> dir_size,
                      formatted_size |-> format_size(dir_size),
                      children |-> <<>>,
                      color |-> get_color_for_size(dir_size),
                      parent |-> parent_id]
        objs1 == (directory :> node_data) @@ objs
        tree1 == (dir_id :> directory) @@ tree
        listing == listdir(directory)
        tried == IF listing.exc # None
                 THEN [objs |-> objs1, tree |-> tree1, exc |-> listing.exc]
                 ELSE BuildSubdirs(objs1, tree1, directory, dir_id,
                                   sorted(SubdirItems(directory, listing.val)))
    IN EndTry(tried)

\* for subdir in subdirs: build the subdirectory, then append its id
BuildSubdirs(objs, tree, directory, dir_id, subdirs) ==
    IF subdirs = <<>> THEN [objs |-> objs, tree |-> tree, exc |-> None]
    ELSE LET subdir_path == join(directory, Head(subdirs))
             subdir_id == generate_id(subdir_path)
             built == build_directory_tree(objs, tree, subdir_path, dir_id)
         IN IF built.exc # None THEN built
            ELSE BuildSubdirs(
                   [built.objs EXCEPT ![directory].children = Append(@, subdir_id)],
                   built.tree, directory, dir_id, Tail(subdirs))

\* self.directory_tree as json.dumps writes it: id -> node_data
TreeData == [id \in DOMAIN directory_tree |-> node_objs[directory_tree[id]]]

----------------------------------------------------------------------------
(* save_svg: scan, build, generate, write *)

\* DirectorySVGGenerator.__init__
InitGenerator ==
    /\ dir_sizes = <<>>
    /\ min_dir_size = Inf
    /\ max_dir_size = 1
    /\ min_color = MIN_COLOR
    /\ mid_color = MID_COLOR
    /\ max_color = MAX_COLOR
    /\ node_objs = <<>>
    /\ directory_tree = <<>>

\* let currentZoom = 0.5 and let zoomIncrement = 0.1, in tenths; the floor
\* of zoomOut and the zoom of resetZoom, in tenths
InitialZoom == 5
zoomIncrement == 1
MinZoom == 1
ResetZoom == 10

\* A zoomOut without its floor
zoomOutUnbounded(zoom) == zoom - zoomIncrement

\* zoomIn(), zoomOut() and resetZoom(): the currentZoom they leave
zoomIn(zoom) == zoom + zoomIncrement
zoomOut(zoom) == Max2(MinZoom, zoom - zoomIncrement)
resetZoom(zoom) == ResetZoom

\* The document is not open in a browser: the script has no state, the svg
\* element has the size generate_interactive_svg wrote
NoPage ==
    /\ nodeStates = <<>>
    /\ highlight = <<>>
    /\ layout = <<>>
    /\ verticalGap = VERTICAL_GAP
    /\ horizontalGap = HORIZONTAL_GAP
    /\ connections = {}
    /\ nodes = {}
    /\ svg_size = <<svg_width, svg_height>>
    /\ event = [type |-> "none"]
    /\ currentZoom = InitialZoom

\* No call of the scaffolder
NoScaffold ==
    /\ game_name = None
    /\ root_directory = None
    /\ engine = None
    /\ platforms = <<>>
    /\ game_dir = None
    /\ disk = [dirs |-> {}, files |-> {}]
    /\ todo = <<>>

\* No main has printed or returned
NoMain ==
    /\ stdout = <<>>
    /\ exit_code = None

Init ==
    /\ InitFS
    /\ InitGenerator
    /\ NoPage
    /\ NoScaffold
    /\ NoMain
    /\ html = None
    /\ output_file = None
    /\ scan_stack = <<<<>>>>
    /\ pc = "scan"
    /\ error = None
    /\ run = 1
    /\ first_tree = None
    /\ arg = None
    /\ result = None

\* self.dir_sizes[directory] = dir_size
SetSize(sizes, directory, dir_size) == (directory :> dir_size) @@ sizes

\* One call of scan_directory_sizes, up to its calls for the subdirectories,
\* which are pending in the listing's order.
ScanStep ==
    /\ pc = "scan"
    /\ scan_stack # <<>>
    /\ LET directory == Head(scan_stack)
           listing == listdir(directory)
           subdirs == [i \in 1..Len(SubdirItems(directory, listing.val)) |->
                         join(directory, SubdirItems(directory, listing.val)[i])]
           dir_size == calculate_dir_size(directory)
           pending == IF listing.exc # None THEN Tail(scan_stack)
                      ELSE subdirs \o Tail(scan_stack)
       IN /\ IF listing.exc # None
             THEN UNCHANGED <<dir_sizes, min_dir_size, max_dir_size>>
             ELSE /\ dir_sizes' = SetSize(dir_sizes, directory, dir_size)
                  /\ min_dir_size' = IF dir_size > 0
                                     THEN Min2(min_dir_size, dir_size)
                                     ELSE min_dir_size
                  /\ max_dir_size' = Max2(max_dir_size, dir_size)
          /\ IF listing.exc # None /\ ~Caught(listing.exc)
             THEN /\ pc' = "crashed"
                  /\ error' = listing.exc
                  /\ scan_stack' = <<>>
             ELSE /\ scan_stack' = pending
                  /\ pc' = IF pending = <<>> THEN "build" ELSE "scan"
                  /\ error' = error
    /\ UNCHANGED <<fsVars, rampVars, callVars, node_objs, directory_tree, html,
                   output_file, run, first_tree, clientVars, scaffoldVars, mainVars>>

\* self.build_directory_tree()
Build ==
    /\ pc = "build"
    /\ LET built == build_directory_tree(node_objs, directory_tree, <<>>, None)
       IN /\ node_objs' = built.objs
          /\ directory_tree' = built.tree
          /\ pc' = IF built.exc = None THEN "generate" ELSE "crashed"
          /\ error' = built.exc
    /\ UNCHANGED <<fsVars, rampVars, callVars, dir_sizes, min_dir_size, max_dir_size,
                   html, output_file, scan_stack, run, first_tree, clientVars, scaffoldVars, mainVars>>

\* html_content = self.generate_interactive_svg(): the legend's two sizes
\* and the node mapping are what it computes; an exception leaves save_svg.
Generate ==
    /\ pc = "generate"
    /\ LET small == format_size(min_dir_size)
           large == format_size(max_dir_size)
       IN IF small = OverflowError \/ large = OverflowError
          THEN /\ pc' = "crashed"
               /\ error' = "OverflowError"
               /\ html' = html
          ELSE /\ pc' = "write"
               /\ error' = error
               /\ html' = [small |-> small, large |-> large, treeData |-> TreeData]
    /\ UNCHANGED <<fsVars, rampVars, callVars, dir_sizes, min_dir_size, max_dir_size,
                   node_objs, directory_tree, output_file, scan_stack, run, first_tree, clientVars, scaffoldVars, mainVars>>

\* The name of the output document, "directory_structure.html": the default
\* of --output, which save_svg joins to the root directory
OutputName == <<100, 105, 114, 101, 99, 116, 111, 114, 121, 95, 115, 116,
                114, 117, 99, 116, 117, 114, 101, 46, 104, 116, 109, 108>>

\* The file f is the output document
IsOutput(f) == f.dir = <<>> /\ f.name = OutputName

\* The characters of one entry of json.dumps(self.directory_tree): the key,
\* the eight keys of node_data and the punctuation are 144 characters with
\* the id of 13 characters twice and the color of 7; "children" is the ids
\* in quotes with ", " between them, "parent" is null or an id in quotes
NodeChars(node) ==
    144 + Len(node.name) + Len(PathBytes(node.path)) + Len(DecStr(node.size))
        + Len(node.formatted_size)
        + (IF node.children = <<>> THEN 0 ELSE 17 * Len(node.children) - 2)
        + (IF node.parent = None THEN 4 ELSE 15)

\* The characters of json.dumps(tree): the entries in braces, ", " between
\* them
RECURSIVE EntriesChars(_, _)
EntriesChars(tree, ids) ==
    IF ids = {} THEN 0
    ELSE LET id == CHOOSE x \in ids : TRUE
         IN NodeChars(tree[id]) + 2 + EntriesChars(tree, ids \ {id})

JsonChars(tree) == IF DOMAIN tree = {} THEN 2 ELSE EntriesChars(tree, DOMAIN tree)

\* The bytes of the lines generate_interactive_svg joins, in utf-8, without
\* the two sizes of the legend and without the node mapping
TemplateBytes == 15242

\* The bytes f.write(html_content) writes with encoding='utf-8'; every name
\* of the model is one ASCII character
DocumentBytes(content) ==
    TemplateBytes + Len(content.small) + Len(content.large) + JsonChars(content.treeData)

\* What the system takes of a document before it refuses the rest: nothing,
\* or its first block.  A refusal after any other part of the document is
\* not in the model.
BlockBytes == 4096
PartialBytes == {0, BlockBytes}

\* The output document in the root directory, with bytes bytes
Document(bytes) == [dir |-> <<>>, name |-> OutputName, size |-> bytes, ok |-> TRUE]

\* with open(output_path, 'w') as f: f.write(html_content), for the default
\* output name: the document is a file of the directory that was scanned.
\* The system can refuse the open (PermissionError for a directory that
\* cannot be written, OSError): no file is made.  It can refuse the write
\* (OSError): the part written before stays.  Either exception leaves
\* save_svg and main.
Write ==
    /\ pc = "write"
    /\ \/ /\ output_file' = html
          /\ fsFiles' = {f \in fsFiles : ~IsOutput(f)} \cup {Document(DocumentBytes(html))}
          /\ pc' = "done"
          /\ error' = error
       \/ /\ output_file' = output_file
          /\ fsFiles' = fsFiles
          /\ pc' = "write_raised"
          /\ error' \in {"PermissionError", "OSError"}
       \/ \E bytes \in PartialBytes :
             /\ output_file' = [bytes |-> bytes]
             /\ fsFiles' = {f \in fsFiles : ~IsOutput(f)} \cup {Document(bytes)}
             /\ pc' = "write_raised"
             /\ error' = "OSError"
    /\ UNCHANGED <<fsDirs, fsDenied, fsOrder, rampVars, callVars, dir_sizes, min_dir_size,
                   max_dir_size, node_objs, directory_tree, html, scan_stack, run,
                   first_tree, clientVars, scaffoldVars, mainVars>>

Next == ScanStep \/ Build \/ Generate \/ Write

Spec == Init /\ [][Next]_vars

----------------------------------------------------------------------------
(* main of the visualizer: the test of the target, save_svg, the report *)

\* print(f"Error: '{args.directory}' is not a valid directory.") and
\* print(f"Generated visualization at: {output_path}"), for the target /r
\* and the default output name
NotValidDirectory == "Error: '/r' is not a valid directory."
GeneratedAt == "Generated visualization at: /r/directory_structure.html"

\* main is entered with a target that is a directory tree, or with one that
\* is no directory; no generator has been made and nothing has been written
InitMain ==
    /\ \/ InitFS
       \/ /\ fsDirs = {}
          /\ fsFiles = {}
          /\ fsDenied = {}
          /\ fsOrder = <<>>
    /\ InitGenerator
    /\ NoPage
    /\ NoScaffold
    /\ NoMain
    /\ html = None
    /\ output_file = None
    /\ scan_stack = <<>>
    /\ pc = "main"
    /\ error = None
    /\ run = 1
    /\ first_tree = None
    /\ arg = None
    /\ result = None

\* if not os.path.isdir(args.directory): print the error and return;
\* otherwise make the generator and enter save_svg
CheckDirectory ==
    /\ pc = "main"
    /\ IF ~isdir(<<>>)
       THEN /\ stdout' = Append(stdout, NotValidDirectory)
            /\ pc' = "exited"
            /\ scan_stack' = scan_stack
       ELSE /\ stdout' = stdout
            /\ pc' = "scan"
            /\ scan_stack' = <<<<>>>>
    /\ UNCHANGED <<fsVars, rampVars, callVars, dir_sizes, min_dir_size, max_dir_size,
                   node_objs, directory_tree, html, output_file, error, run, first_tree,
                   clientVars, scaffoldVars, exit_code>>

\* save_svg has returned: print where the document is, and return
ReportOutput ==
    /\ pc = "done"
    /\ stdout' = Append(stdout, GeneratedAt)
    /\ pc' = "exited"
    /\ UNCHANGED <<fsVars, rampVars, callVars, dir_sizes, min_dir_size, max_dir_size,
                   node_objs, directory_tree, html, output_file, scan_stack, error, run,
                   first_tree, clientVars, scaffoldVars, exit_code>>

NextMain == CheckDirectory \/ ScanStep \/ Build \/ Generate \/ Write \/ ReportOutput

SpecMain == InitMain /\ [][NextMain]_vars

----------------------------------------------------------------------------
(* The scan and the tree build, run twice over one snapshot *)

\* After the first build, a new generator is made for the same root and its
\* scan is started.  first_tree keeps what the first generator built.  The
\* snapshot is the same; the order in which a directory lists its entries
\* is not promised to be.
SecondRun ==
    /\ pc = "generate"
    /\ run = 1
    /\ run' = 2
    /\ first_tree' = TreeData
    /\ fsOrder' \in Orders(fsDirs, fsDirs)
    /\ dir_sizes' = <<>>
    /\ min_dir_size' = Inf
    /\ max_dir_size' = 1
    /\ node_objs' = <<>>
    /\ directory_tree' = <<>>
    /\ scan_stack' = <<<<>>>>
    /\ pc' = "scan"
    /\ UNCHANGED <<fsDirs, fsFiles, fsDenied, rampVars, callVars, html, output_file, error,
                   clientVars, scaffoldVars, mainVars>>

NextTwice == ScanStep \/ Build \/ SecondRun

SpecTwice == Init /\ [][NextTwice]_vars

----------------------------------------------------------------------------
(* Direct calls of get_color_for_size and of format_size *)

\* A snapshot with the root directory alone
InitEmptyFS ==
    /\ fsDirs = {<<>>}
    /\ fsFiles = {}
    /\ fsDenied = {}
    /\ fsOrder = (<<>> :> <<>>)

InitIdle ==
    /\ InitEmptyFS
    /\ NoPage
    /\ dir_sizes = <<>>
    /\ node_objs = <<>>
    /\ directory_tree = <<>>
    /\ html = None
    /\ output_file = None
    /\ scan_stack = <<>>
    /\ error = None
    /\ run = 1
    /\ first_tree = None
    /\ result = None

\* The colors a ramp is made of: the three defaults, blue, white and black
RampColors == {MIN_COLOR, MID_COLOR, MAX_COLOR, <<0, 0, 255>>, <<255, 255, 255>>, <<0, 0, 0>>}

\* max_dir_size - min_dir_size of a call
Spans == {0, 1, 2, 4, 8}

\* A generator whose ramp has been set and whose scan has left some
\* min_dir_size and max_dir_size: none seen and 1, or 1 <= min <= max.
InitColor ==
    /\ InitIdle
    /\ NoScaffold
    /\ NoMain
    /\ min_color \in RampColors
    /\ mid_color \in RampColors
    /\ max_color \in RampColors
    /\ \/ min_dir_size = Inf /\ max_dir_size = 1
       \/ /\ min_dir_size \in 1..MaxColorSize
          /\ max_dir_size \in {min_dir_size + d : d \in Spans}
    /\ arg \in 0..(MaxColorSize + 9)
    /\ pc = "get_color_for_size"

CallColor ==
    /\ pc = "get_color_for_size"
    /\ result' = get_color_for_size(arg)
    /\ pc' = "returned"
    /\ UNCHANGED <<fsVars, rampVars, dir_sizes, min_dir_size, max_dir_size, node_objs,
                   directory_tree, html, output_file, scan_stack, error, run, first_tree, arg, clientVars, scaffoldVars, mainVars>>

SpecColor == InitColor /\ [][CallColor]_vars

\* The sizes format_size is called on: all up to MaxFormatSize, the sizes
\* around 1024 * 1024, and float('inf')
FormatArgs ==
    (0..MaxFormatSize) \cup {1024 * 1024 - 1, 1024 * 1024, 1024 * 1024 + 1, Inf}

InitFormat ==
    /\ InitIdle
    /\ NoScaffold
    /\ NoMain
    /\ min_dir_size = Inf
    /\ max_dir_size = 1
    /\ min_color = MIN_COLOR
    /\ mid_color = MID_COLOR
    /\ max_color = MAX_COLOR
    /\ arg \in FormatArgs
    /\ pc = "format_size"

CallFormat ==
    /\ pc = "format_size"
    /\ result' = format_size(arg)
    /\ pc' = "returned"
    /\ UNCHANGED <<fsVars, rampVars, dir_sizes, min_dir_size, max_dir_size, node_objs,
                   directory_tree, html, output_file, scan_stack, error, run, first_tree, arg, clientVars, scaffoldVars, mainVars>>

SpecFormat == InitFormat /\ [][CallFormat]_vars

----------------------------------------------------------------------------
(* The script of the generated document, run by a browser.  Every handler  *)
(* runs to its end, renderTree included, before the next event.            *)

\* const treeData = json.dumps(self.directory_tree), as the document has it
treeData == output_file.treeData

\* A number that is not one: undefined + 220, parseFloat("undefined")
NaN == -1

\* s.toLowerCase()
toLowerCase(s) == [i \in 1..Len(s) |-> Lower(s[i])]

\* s.trim(): without the spaces at its two ends
RECURSIVE trim(_)
trim(s) ==
    IF s = <<>> THEN s
    ELSE IF Head(s) = 32 THEN trim(Tail(s))
    ELSE IF s[Len(s)] = 32 THEN trim(SubSeq(s, 1, Len(s) - 1))
    ELSE s

\* s.includes(t)
includes(s, t) ==
    \E i \in 0..(Len(s) - Len(t)) : SubSeq(s, i + 1, i + Len(t)) = t

\* Object.keys(treeData).find(id => !treeData[id].parent)
rootId ==
    LET roots == {id \in DOMAIN treeData : treeData[id].parent = None}
    IN IF roots = {} THEN None ELSE CHOOSE id \in roots : TRUE

\* A forEach that shows every node
ShowEverything(ns, children) ==
    [id \in DOMAIN ns |-> [ns[id] EXCEPT !.visible = TRUE]]

\* children.forEach(childId => { nodeStates[childId].visible = true; })
ShowChildren(ns, children) ==
    [id \in DOMAIN ns |->
        IF id \in Range(children) THEN [ns[id] EXCEPT !.visible = TRUE] ELSE ns[id]]

\* The nodeStates the script starts with: the root expanded, the root and
\* its children visible
DefaultStates ==
    LET ns == [id \in DOMAIN treeData |-> [expanded |-> id = rootId, visible |-> FALSE]]
    IN IF rootId = None THEN ns
       ELSE ShowChildren([ns EXCEPT ![rootId].visible = TRUE], treeData[rootId].children)

\* A collapse that stops at the children
collapseChildrenOnly(ns, nodeId) ==
    [id \in DOMAIN ns |->
        IF id = nodeId THEN [ns[id] EXCEPT !.expanded = FALSE]
        ELSE IF id \in Range(treeData[nodeId].children)
        THEN [expanded |-> FALSE, visible |-> FALSE]
        ELSE ns[id]]

\* collapseSubtree(nodeId), started with the nodeStates ns
RECURSIVE collapseSubtree(_, _), CollapseChildren(_, _)
collapseSubtree(ns, nodeId) ==
    CollapseChildren([ns EXCEPT ![nodeId].expanded = FALSE], treeData[nodeId].children)

CollapseChildren(ns, children) ==
    IF children = <<>> THEN ns
    ELSE CollapseChildren(
           collapseSubtree([ns EXCEPT ![Head(children)].visible = FALSE], Head(children)),
           Tail(children))

\* A toggle that collapses the node and leaves its subtree as it is
toggleNodeFlagOnly(ns, nodeId) ==
    LET flipped == [ns EXCEPT ![nodeId].expanded = ~@]
    IN IF ~flipped[nodeId].expanded
       THEN flipped
       ELSE ShowChildren(flipped, treeData[nodeId].children)

\* toggleNode(nodeId, event) up to its renderTree()
toggleNode(ns, nodeId) ==
    LET flipped == [ns EXCEPT ![nodeId].expanded = ~@]
    IN IF ~flipped[nodeId].expanded
       THEN collapseSubtree(flipped, nodeId)
       ELSE ShowChildren(flipped, treeData[nodeId].children)

\* A loop that stops after the first parent
ExpandParentsOnce(ns, parentId, seen) ==
    IF parentId = None THEN [ns |-> ns, ends |-> TRUE]
    ELSE [ns |-> [ns EXCEPT ![parentId] = [expanded |-> TRUE, visible |-> TRUE]],
          ends |-> TRUE]

\* The while loop of searchNodes, from parentId on; seen are the ids it has
\* been at.  Coming to one of them again, it never ends.
RECURSIVE ExpandParents(_, _, _)
ExpandParents(ns, parentId, seen) ==
    IF parentId = None THEN [ns |-> ns, ends |-> TRUE]
    ELSE IF parentId \in seen THEN [ns |-> ns, ends |-> FALSE]
    ELSE ExpandParents([ns EXCEPT ![parentId] = [expanded |-> TRUE, visible |-> TRUE]],
                       treeData[parentId].parent, seen \cup {parentId})

\* The second forEach of searchNodes over the ids
RECURSIVE SearchMatches(_, _, _)
SearchMatches(st, ids, searchTerm) ==
    IF ids = <<>> \/ ~st.ends THEN st
    ELSE LET id == Head(ids)
         IN IF includes(toLowerCase(treeData[id].name), searchTerm)
            THEN LET up == ExpandParents(
                             [st.ns EXCEPT ![id] = [expanded |-> TRUE, visible |-> TRUE]],
                             treeData[id].parent, {})
                 IN SearchMatches([ns |-> up.ns,
                                   highlight |-> [st.highlight EXCEPT ![id] = TRUE],
                                   ends |-> up.ends],
                                  Tail(ids), searchTerm)
            ELSE SearchMatches(st, Tail(ids), searchTerm)

\* searchTerm.trim() === ''
IsEmpty(searchTerm) == trim(searchTerm) = <<>>

\* searchNodes(searchTerm): the nodeStates and highlights it leaves, and
\* whether it returns
searchNodes(searchTerm) ==
    LET reset == [ns |-> [id \in DOMAIN treeData |-> [expanded |-> FALSE, visible |-> FALSE]],
                  highlight |-> [id \in DOMAIN treeData |-> FALSE],
                  ends |-> TRUE]
    IN IF IsEmpty(searchTerm)
       THEN [reset EXCEPT !.ns = [DefaultStates EXCEPT ![rootId].expanded = TRUE]]
       ELSE SearchMatches(reset, SeqOfSet(DOMAIN treeData), searchTerm)

\* levelPositions[level]
RECURSIVE levelPositions(_, _)
levelPositions(level, hgap) ==
    IF level = 0 THEN 45 ELSE levelPositions(level - 1, hgap) + NODE_WIDTH + hgap

\* traverseVisible(nodeId, level, position); acc has the layout so far, the
\* list visibleNodes and the position, and is returned as the call leaves it
RECURSIVE traverseVisible(_, _, _, _, _), TraverseChildren(_, _, _, _, _)
traverseVisible(acc, ns, vgap, nodeId, level) ==
    IF ~ns[nodeId].visible THEN acc
    ELSE LET here == [level |-> level,
                      y |-> acc.position * vgap + 45,
                      x |-> IF nodeId \in DOMAIN acc.layout THEN acc.layout[nodeId].x ELSE NaN]
             acc1 == [layout |-> (nodeId :> here) @@ acc.layout,
                      visibleNodes |-> Append(acc.visibleNodes, nodeId),
                      position |-> acc.position + 1]
         IN IF ns[nodeId].expanded
            THEN TraverseChildren(acc1, ns, vgap, treeData[nodeId].children, level + 1)
            ELSE acc1

TraverseChildren(acc, ns, vgap, children, level) ==
    IF children = <<>> THEN acc
    ELSE TraverseChildren(
           IF ns[Head(children)].visible
           THEN traverseVisible(acc, ns, vgap, Head(children), level)
           ELSE acc,
           ns, vgap, Tail(children), level)

\* The traversal calculateNodePositions makes: what it leaves in the layout,
\* the list visibleNodes and the number of positions given
Traversal(lay, ns, vgap) ==
    LET acc == [layout |-> lay, visibleNodes |-> <<>>, position |-> 0]
    IN IF rootId = None THEN acc ELSE traverseVisible(acc, ns, vgap, rootId, 0)

\* calculateNodePositions(): the layout it leaves
calculateNodePositions(lay, ns, vgap, hgap) ==
    LET t == Traversal(lay, ns, vgap)
    IN [id \in DOMAIN t.layout |->
          IF id \in Range(t.visibleNodes)
          THEN [t.layout[id] EXCEPT !.x = levelPositions(t.layout[id].level, hgap)]
          ELSE t.layout[id]]

\* node.x and node.y of a node that may have none
NodeX(lay, id) == IF id \in DOMAIN lay THEN lay[id].x ELSE NaN
NodeY(lay, id) == IF id \in DOMAIN lay THEN lay[id].y ELSE NaN

\* a + b of two numbers, one of which may be NaN
Plus(a, b) == IF a = NaN \/ b = NaN THEN NaN ELSE a + b

\* Math.max(a, b)
MathMax(a, b) == IF a = NaN \/ b = NaN THEN NaN ELSE Max2(a, b)

\* The test of renderConnections for the parent: visible, expanded, with
\* children
DrawsFrom(ns, nodeId) ==
    ns[nodeId].visible /\ ns[nodeId].expanded /\ treeData[nodeId].children # <<>>

\* A test that every child passes
DrawsToAny(ns, childId) == TRUE

\* The test of renderConnections for the child: visible
DrawsTo(ns, childId) == ns[childId].visible

\* renderConnections(): the paths it appends, each with the two nodes it
\* joins and the two ends of its curve
renderConnections(lay, ns) ==
    UNION {{[parent |-> nodeId,
             child |-> childId,
             startX |-> Plus(NodeX(lay, nodeId), NODE_WIDTH),
             startY |-> Plus(NodeY(lay, nodeId), NODE_HEIGHT \div 2),
             endX |-> NodeX(lay, childId),
             endY |-> Plus(NodeY(lay, childId), NODE_HEIGHT \div 2)] :
               childId \in {c \in Range(treeData[nodeId].children) : DrawsTo(ns, c)}} :
             nodeId \in {id \in DOMAIN treeData : DrawsFrom(ns, id)}}

\* renderNodes(): the groups it appends, each with its data-id, the x and y
\* of its rect, and whether the rect has the fill of a match
renderNodes(lay, ns, hl) ==
    {[id |-> nodeId,
      x |-> NodeX(lay, nodeId),
      y |-> NodeY(lay, nodeId),
      highlight |-> hl[nodeId]] : nodeId \in {id \in DOMAIN treeData : ns[id].visible}}

\* The loop of updateSVGSize over the rects
RECURSIVE MaxCorner(_, _)
MaxCorner(corner, rects) ==
    IF rects = {} THEN corner
    ELSE LET r == CHOOSE q \in rects : TRUE
         IN MaxCorner(<<MathMax(corner[1], Plus(r.x, NODE_WIDTH)),
                        MathMax(corner[2], Plus(r.y, NODE_HEIGHT))>>,
                      rects \ {r})

\* updateSVGSize(): the viewBox (and width and height) it leaves
updateSVGSize(size, drawn) ==
    IF drawn = {} THEN size
    ELSE LET corner == MaxCorner(<<0, 0>>, drawn)
         IN <<Plus(corner[1], 100), Plus(corner[2], 150)>>

\* renderTree() with the nodeStates ns, the highlights hl and the gaps
renderTree(ns, hl, vgap, hgap) ==
    /\ layout' = calculateNodePositions(layout, ns, vgap, hgap)
    /\ connections' = renderConnections(layout', ns)
    /\ nodes' = renderNodes(layout', ns, hl)
    /\ svg_size' = updateSVGSize(svg_size, nodes')

\* What a user types into the search box: nothing, a space, "A", "x"
SearchInputs == {<<>>, <<32>>, <<65>>, <<120>>}

\* What a user sets the vertical gap input to, and the horizontal one
VerticalGapInputs == {60}
HorizontalGapInputs == {0}

\* save_svg is entered on a snapshot with one file of one byte in the root
\* directory, its directories one of trees, every directory listable
Entered(trees) ==
    /\ fsDirs \in trees
    /\ fsFiles = {[dir |-> <<>>, name |-> <<102>>, size |-> 1, ok |-> TRUE]}
    /\ fsDenied = {}
    /\ fsOrder = [d \in fsDirs |-> sorted(SeqOfSet(ChildNames(fsDirs, d)))]
    /\ InitGenerator
    /\ NoPage
    /\ NoScaffold
    /\ NoMain
    /\ html = None
    /\ output_file = None
    /\ scan_stack = <<<<>>>>
    /\ pc = "scan"
    /\ error = None
    /\ run = 1
    /\ first_tree = None
    /\ arg = None
    /\ result = None

\* The document is made for one of the trees, and then opened
InitPage == Entered(Trees)

\* node.highlight of every node: undefined until a search sets it
Highlights == [id \in DOMAIN treeData |-> id \in DOMAIN highlight /\ highlight[id]]

serverVars == <<fsVars, rampVars, callVars, dir_sizes, min_dir_size, max_dir_size,
                node_objs, directory_tree, html, output_file, scan_stack, error, run,
                first_tree, scaffoldVars, mainVars>>

\* A click on the group of a drawn node, or on its toggle glyph
Click ==
    /\ pc = "page"
    /\ \E g \in nodes :
         /\ event' = [type |-> "click", id |-> g.id]
         /\ nodeStates' = toggleNode(nodeStates, g.id)
         /\ renderTree(nodeStates', Highlights, verticalGap, horizontalGap)
    /\ UNCHANGED <<serverVars, pc, highlight, verticalGap, horizontalGap, currentZoom>>

\* An input event of the search box
SearchInput ==
    /\ pc = "page"
    /\ \E value \in SearchInputs :
         LET searchTerm == toLowerCase(value)
             found == searchNodes(searchTerm)
         IN /\ event' = [type |-> "search", value |-> value]
            /\ IF found.ends
               THEN /\ nodeStates' = found.ns
                    /\ highlight' = found.highlight
                    /\ renderTree(found.ns, found.highlight, verticalGap, horizontalGap)
                    /\ pc' = pc
               ELSE /\ pc' = "hung"
                    /\ UNCHANGED <<nodeStates, highlight, layout, connections, nodes, svg_size>>
    /\ UNCHANGED <<serverVars, verticalGap, horizontalGap, currentZoom>>

\* parseInt(e.target.value) || fallback
GapOf(value, fallback) == IF value = 0 THEN fallback ELSE value

\* An input event of the vertical gap input
VerticalGapInput ==
    /\ pc = "page"
    /\ \E value \in VerticalGapInputs :
         /\ event' = [type |-> "vertical-gap", value |-> value]
         /\ verticalGap' = GapOf(value, 100)
         /\ renderTree(nodeStates, Highlights, verticalGap', horizontalGap)
    /\ UNCHANGED <<serverVars, pc, nodeStates, highlight, horizontalGap, currentZoom>>

\* An input event of the horizontal gap input
HorizontalGapInput ==
    /\ pc = "page"
    /\ \E value \in HorizontalGapInputs :
         /\ event' = [type |-> "horizontal-gap", value |-> value]
         /\ horizontalGap' = GapOf(value, 300)
         /\ renderTree(nodeStates, Highlights, verticalGap, horizontalGap')
    /\ UNCHANGED <<serverVars, pc, nodeStates, highlight, verticalGap, currentZoom>>

\* The document that was written is opened and its script runs: the initial
\* nodeStates and the first renderTree()
Load ==
    /\ pc = "done"
    /\ pc' = "page"
    /\ event' = [type |-> "load"]
    /\ nodeStates' = DefaultStates
    /\ renderTree(nodeStates', Highlights, verticalGap, horizontalGap)
    /\ currentZoom' = zoomOut(InitialZoom)
    /\ UNCHANGED <<serverVars, highlight, verticalGap, horizontalGap>>

\* save_svg from its entry to the document, and the document's load
Produce == ScanStep \/ Build \/ Generate \/ Write \/ Load

NextPage ==
    \/ Produce
    \/ Click
    \/ SearchInput
    \/ VerticalGapInput
    \/ HorizontalGapInput

SpecPage == InitPage /\ [][NextPage]_vars

\* The directories from the root down to p
Prefixes(p) == {SubSeq(p, 1, k) : k \in 0..Len(p)}

\* The trees that are one chain of directories, each in the one above it,
\* with up to MaxDirs directories below the root
DeepTrees == {Prefixes(p) : p \in UNION {[1..k -> Names] : k \in 0..MaxDirs}}

\* The document is made for a chain of directories, and then opened
InitDeep == Entered(DeepTrees)

SpecDeep == InitDeep /\ [][NextPage]_vars

----------------------------------------------------------------------------
(* The zoom buttons of the document *)

\* The largest zoom, in tenths, from which the model still zooms in
MaxZoom == 12

\* A click on one of the three zoom buttons
Zoomed(button, zoom) ==
    /\ pc = "page"
    /\ event' = [type |-> button]
    /\ currentZoom' = zoom
    /\ UNCHANGED <<serverVars, pc, nodeStates, highlight, layout, verticalGap,
                   horizontalGap, connections, nodes, svg_size>>

ClickZoomIn == currentZoom <= MaxZoom /\ Zoomed("zoom-in", zoomIn(currentZoom))
ClickZoomOut == Zoomed("zoom-out", zoomOut(currentZoom))
ClickZoomReset == Zoomed("zoom-reset", resetZoom(currentZoom))

NextZoom == Produce \/ ClickZoomIn \/ ClickZoomOut \/ ClickZoomReset

SpecZoom == InitPage /\ [][NextZoom]_vars

----------------------------------------------------------------------------
(* The scaffolder of game-project-directory-creator.py:                    *)
(* create_game_directory_structure and create_engine_specific_structure.   *)
(* Names and paths are texts.  The disk is the set of its directories and  *)
(* the set of its files, each by its path without a trailing slash; what   *)
(* a file holds is not modelled.                                           *)

PRE_PRODUCTION == "Pre-Production"
PRODUCTION == "Production"
POST_PRODUCTION == "Post-Production"

\* s.startswith(prefix) and s.endswith(suffix)
startswith(s, prefix) ==
    Len(prefix) <= Len(s) /\ SubSeq(s, 1, Len(prefix)) = prefix
endswith(s, suffix) ==
    Len(suffix) <= Len(s) /\ SubSeq(s, Len(s) - Len(suffix) + 1, Len(s)) = suffix

\* s.replace(old, new), for an old that is not empty
RECURSIVE replace(_, _, _)
replace(s, old, new) ==
    IF s = "" THEN ""
    ELSE IF startswith(s, old)
         THEN new \o replace(SubSeq(s, Len(old) + 1, Len(s)), old, new)
         ELSE SubSeq(s, 1, 1) \o replace(SubSeq(s, 2, Len(s)), old, new)

\* s.find(sub): the first index (from 0) of sub in s, -1 when there is none
RECURSIVE find(_, _)
find(s, sub) ==
    IF startswith(s, sub) THEN 0
    ELSE IF s = "" THEN -1
    ELSE LET i == find(SubSeq(s, 2, Len(s)), sub)
         IN IF i = -1 THEN -1 ELSE i + 1

\* s.rfind(sub): the last index (from 0) of sub in s, -1 when there is none
RECURSIVE rfind(_, _)
rfind(s, sub) ==
    IF endswith(s, sub) THEN Len(s) - Len(sub)
    ELSE IF s = "" THEN -1
    ELSE rfind(SubSeq(s, 1, Len(s) - 1), sub)

\* s.rstrip(ch) for one character
RECURSIVE rstrip(_, _)
rstrip(s, ch) ==
    IF endswith(s, ch) THEN rstrip(SubSeq(s, 1, Len(s) - 1), ch) ELSE s

\* os.path.join(a, b), os.path.basename(p) and os.path.dirname(p) of posixpath
os_path_join(a, b) ==
    IF startswith(b, "/") THEN b
    ELSE IF a = "" \/ endswith(a, "/") THEN a \o b
    ELSE a \o "/" \o b
os_path_basename(p) ==
    SubSeq(p, rfind(p, "/") + 2, Len(p))
os_path_dirname(p) ==
    LET head == SubSeq(p, 1, rfind(p, "/") + 1)
    IN IF head # "" /\ rstrip(head, "/") # "" THEN rstrip(head, "/") ELSE head

\* The entry of the disk a path names: the path without trailing slashes
Entry(p) ==
    IF p # "" /\ rstrip(p, "/") = "" THEN "/" ELSE rstrip(p, "/")

\* The entry of a path and the directories above it, below "/"
RECURSIVE Chain(_)
Chain(p) ==
    LET e == Entry(p)
    IN IF e \in {"", "/"} THEN {} ELSE {e} \cup Chain(os_path_dirname(e))

\* p is a directory or a file of the disk d
OnDisk(d, p) == Entry(p) \in d.dirs \cup d.files

\* os.path.exists(p): what it can answer.  It answers False for a path that
\* is not there, and also when the system refuses the stat of one that is
\* (as when a directory above p cannot be searched).
exists(d, p) == {OnDisk(d, p), FALSE}

\* The paths of S, the shortest first
RECURSIVE ByLength(_)
ByLength(S) ==
    IF S = {} THEN <<>>
    ELSE LET x == CHOOSE x \in S : \A y \in S : Len(x) <= Len(y)
         IN <<x>> \o ByLength(S \ {x})

\* The mkdir calls of os.makedirs for the directories missing, from the top
\* down: a mkdir raises when the name is a file, and whenever the system
\* refuses it (PermissionError, OSError); the directories made before it
\* stay.  The outcomes: the disk left, and whether an exception was raised.
RECURSIVE Mkdirs(_, _)
Mkdirs(d, missing) ==
    IF missing = <<>> THEN {[disk |-> d, raised |-> FALSE]}
    ELSE {[disk |-> d, raised |-> TRUE]} \cup
         (IF Head(missing) \in d.files THEN {}
          ELSE Mkdirs([d EXCEPT !.dirs = @ \cup {Head(missing)}], Tail(missing)))

\* os.makedirs(p, exist_ok=True): it makes the directories missing above p
\* and then calls mkdir(p), also when p is there.  The FileExistsError of
\* that call is dropped when p is a directory; a call the system refuses
\* (PermissionError, as when a directory above p cannot be searched) raises
\* with the disk as it was.
makedirs(d, p) ==
    {[disk |-> d, raised |-> TRUE]} \cup Mkdirs(d, ByLength(Chain(p) \ d.dirs))

\* open(p, "w") can succeed when the directory of p is there and p is not a
\* directory; it leaves the file p
CanOpen(d, p) == Entry(os_path_dirname(p)) \in d.dirs /\ Entry(p) \notin d.dirs
Opened(d, p) == [d EXCEPT !.files = @ \cup {Entry(p)}]

\* with open(p, "w") as f: f.write(...): the open raises when it cannot
\* succeed and whenever the system refuses it; a write that the system
\* refuses raises with the file left behind.  What a file holds is not kept.
open(d, p) ==
    {[disk |-> d, raised |-> TRUE]} \cup
    (IF CanOpen(d, p)
     THEN {[disk |-> Opened(d, p), raised |-> TRUE],
           [disk |-> Opened(d, p), raised |-> FALSE]}
     ELSE {})

\* The keys of directory_descriptions as the literal has them, in its order
directory_descriptions ==
    <<PRE_PRODUCTION \o "/Idea",
      PRE_PRODUCTION \o "/Story",
      PRE_PRODUCTION \o "/Characters",
      PRE_PRODUCTION \o "/ArtDirection",
      PRE_PRODUCTION \o "/Storyboard",
      PRE_PRODUCTION \o "/ProductPlanning",
      PRE_PRODUCTION \o "/Marketing",
      PRE_PRODUCTION \o "/VocalTracks",
      PRE_PRODUCTION \o "/StoryReel",
      PRE_PRODUCTION \o "/RnD",
      PRODUCTION \o "/Layout",
      PRODUCTION \o "/Modeling",
      PRODUCTION \o "/Texturing",
      PRODUCTION \o "/Rigging",
      PRODUCTION \o "/Animation",
      PRODUCTION \o "/Lighting",
      PRODUCTION \o "/VFX",
      PRODUCTION \o "/SoundFX",
      PRODUCTION \o "/Music",
      PRODUCTION \o "/Rendering",
      PRODUCTION \o "/TitleCredits",
      PRODUCTION \o "/CharSetup",
      POST_PRODUCTION \o "/Compositing",
      POST_PRODUCTION \o "/2DVFX",
      POST_PRODUCTION \o "/ColorCorrection",
      POST_PRODUCTION \o "/FinalOutput",
      "Documentation/Design",
      "Documentation/Technical",
      "Documentation/API",
      "Source/Core",
      "Source/Game",
      "Source/Engine",
      "Source/Tools",
      "Source/Tools/BlenderAddons",
      "Assets/Models/Sources",
      "Assets/Models/Exported",
      "Assets/Textures",
      "Assets/Animations",
      "Assets/Audio",
      "Assets/Shaders",
      "Assets/UI",
      "Assets/3DAnimate",
      "tmp/Builds",
      "tmp/Cache",
      "tmp/Logs",
      "tmp/Backups",
      "tmp/Renders",
      "tmp/Debug",
      "tmp/Testing",
      "tmp/Artifacts",
      "tmp/AutoSave",
      "tmp/Exports",
      "tmp/Media/Images",
      "tmp/Media/Audio",
      "tmp/Media/Video",
      "tmp/Media/Textures",
      "tmp/Prototypes",
      "tmp/Staging",
      "tmp/Review",
      "tmp/Processing",
      "tmp/Import",
      "tmp/Outsourced",
      "Tests/Unit",
      "Tests/Integration",
      "ThirdParty/Libraries",
      "ThirdParty/Tools",
      "Scripts/Build",
      "Scripts/Deploy",
      "Scripts/Tools",
      "Scripts/Pipeline",
      "Scripts/CI",
      "Config/Engine",
      "Config/Game",
      "Versions/Current",
      "Releases/Internal",
      "Releases/External",
      "Releases/Public">>

\* The keys of a dict that got the keys of a list in turn: every key once,
\* where the list has it first
Keys(list) ==
    LET first == {i \in 1..Len(list) : \A j \in 1..(i - 1) : list[j] # list[i]}
    IN [k \in 1..Cardinality(first) |->
          list[CHOOSE i \in first : Cardinality({j \in first : j < i}) = k - 1]]

\* build_dirs: a key Build/platform per platform
build_dirs(plats) == Keys([i \in 1..Len(plats) |-> "Build/" \o plats[i]])

\* directory_descriptions once the keys of build_dirs have been added and
\* the Build keys of no platform removed
DirectoryDescriptions(plats) ==
    LET updated == Keys(directory_descriptions \o build_dirs(plats))
        Removed(key) ==
            /\ startswith(key, "Build/")
            /\ ~\E i \in 1..Len(plats) : key = "Build/" \o plats[i]
            /\ key \notin Range(build_dirs(plats))
    IN SelectSeq(updated, LAMBDA key : ~Removed(key))

\* The keys of top_level_dirs
top_level_dirs ==
    <<"Documentation", "Source", "Assets", "Build", "Tests", "ThirdParty", "Scripts",
      "Config", "Versions", "Releases", "tmp", PRE_PRODUCTION, PRODUCTION,
      POST_PRODUCTION>>

\* The keys of engine_structures[engine]; no key for an engine it has not
engine_structures(e) ==
    CASE e = "Unity" ->
           <<"Assets/Prefabs", "Assets/Materials", "Assets/Scenes", "Assets/Scripts",
             "Assets/Editor", "Assets/Resources", "ProjectSettings", "Packages">>
      [] e = "Unreal" ->
           <<"Content/Blueprints", "Content/Materials", "Content/Levels",
             "Content/Characters", "Content/UI", "Source/[GameName]",
             "Config/DefaultEngine.ini", "Config/DefaultGame.ini">>
      [] e = "Godot" ->
           <<"scenes", "scripts", "assets", "addons", "project.godot",
             "export_presets.cfg">>
      [] OTHER -> <<>>

\* The files create_game_directory_structure writes last, in its order: the
\* two READMEs, the cleanup script, the version info and the ignore list
ProjectFiles ==
    <<"README.md", "tmp/README.md", "Scripts/Tools/cleanup_tmp.py", "version_info.json",
      ".gitignore">>

\* One step of create_game_directory_structure, by what it does and on what
Steps(op, keys) == [i \in 1..Len(keys) |-> [op |-> op, arg |-> keys[i]]]

\* The steps after the game directory has its description, in their order
Plan(e, plats) ==
    Steps("directory", DirectoryDescriptions(plats))
        \o <<[op |-> "top_level", arg |-> ""]>>
        \o (IF e # "Custom" THEN Steps("engine", engine_structures(e)) ELSE <<>>)
        \o Steps("file", ProjectFiles)

\* The names a game is given, the engines of --engine, and the platform
\* lists: none, one, the default of three, one platform twice
GameNames == {"Game", "My Game", " "}
Engines == {"Custom", "Unity", "Unreal", "Godot"}
PlatformLists ==
    {<<>>, <<"Windows">>, <<"Windows", "MacOS", "Linux">>, <<"Web", "Web">>}

\* The root directory of every call
RootDirectory == "/r"

\* The disks a call finds: the root directory is missing, is empty, or holds
\* a file named Game
Disks ==
    {[dirs |-> {"/"}, files |-> {}],
     [dirs |-> {"/", RootDirectory}, files |-> {}],
     [dirs |-> {"/", RootDirectory}, files |-> {os_path_join(RootDirectory, "Game")}]}

\* A call create_game_directory_structure(game_name, root_directory, engine,
\* platforms); platforms=None is the default list
InitScaffold ==
    /\ InitIdle
    /\ NoMain
    /\ min_dir_size = Inf
    /\ max_dir_size = 1
    /\ min_color = MIN_COLOR
    /\ mid_color = MID_COLOR
    /\ max_color = MAX_COLOR
    /\ arg = None
    /\ pc = "create_game_directory_structure"
    /\ game_name \in GameNames
    /\ root_directory = RootDirectory
    /\ engine \in Engines
    /\ platforms \in PlatformLists
    /\ game_dir = None
    /\ disk \in Disks
    /\ todo = <<>>

generatorVars == <<fsVars, rampVars, callVars, dir_sizes, min_dir_size, max_dir_size,
                   node_objs, directory_tree, html, output_file, scan_stack, error, run,
                   first_tree, clientVars>>
callArgs == <<game_name, root_directory, engine, platforms>>

\* makedirs(dir_path) and then open(file_path, "w"): the outcomes
MakeAndOpen(d, dir_path, file_path) ==
    {o \in makedirs(d, dir_path) : o.raised} \cup
    UNION {open(o.disk, file_path) : o \in {m \in makedirs(d, dir_path) : ~m.raised}}

\* The game directory and its description.txt
CreateGameDir ==
    /\ pc = "create_game_directory_structure"
    /\ game_dir' = os_path_join(root_directory, replace(game_name, " ", ""))
    /\ \E done \in MakeAndOpen(disk, game_dir', os_path_join(game_dir', "description.txt")) :
          /\ disk' = done.disk
          /\ IF done.raised
             THEN pc' = "raised" /\ todo' = todo
             ELSE pc' = "running" /\ todo' = Plan(engine, platforms)
    /\ UNCHANGED <<generatorVars, mainVars, callArgs>>

\* A step has one of the outcomes: it has left its disk and goes on, or it
\* has raised and the exception leaves the function
Step(outcomes) ==
    /\ \E done \in outcomes :
          /\ disk' = done.disk
          /\ IF done.raised
             THEN pc' = "raised" /\ todo' = todo
             ELSE pc' = pc /\ todo' = Tail(todo)
    /\ UNCHANGED <<generatorVars, mainVars, callArgs, game_dir>>

\* One directory of directory_descriptions and its description.txt
CreateDirectory ==
    /\ pc = "running" /\ todo # <<>> /\ Head(todo).op = "directory"
    /\ LET dir_path == os_path_join(game_dir, Head(todo).arg)
       IN Step(MakeAndOpen(disk, dir_path, os_path_join(dir_path, "description.txt")))

\* The stats the system refuses in one run of the loop over top_level_dirs,
\* at most
MaxRefusedStats == 1

\* The loop over top_level_dirs, from the outcomes so far: a description.txt
\* for every directory for which os.path.exists answers True and answers
\* False for its description.txt; an open that raises ends the loop.  An
\* outcome counts the stats refused up to it.
RECURSIVE DescribeEach(_, _, _)
DescribeEach(outcomes, g, dirs) ==
    IF dirs = <<>> THEN {[disk |-> o.disk, raised |-> o.raised] : o \in outcomes}
    ELSE LET dir_path == os_path_join(g, Head(dirs))
             desc_path == os_path_join(dir_path, "description.txt")
             Stats(d, p, n) == IF n < MaxRefusedStats THEN exists(d, p) ELSE {OnDisk(d, p)}
             Count(d, p, answer, n) == IF OnDisk(d, p) /\ ~answer THEN n + 1 ELSE n
             Written(d, n) ==
                 {[disk |-> w.disk, raised |-> w.raised, refused |-> n] :
                    w \in open(d, desc_path)}
             Tested(d, n) ==
                 UNION {IF described
                        THEN {[disk |-> d, raised |-> FALSE,
                               refused |-> Count(d, desc_path, described, n)]}
                        ELSE Written(d, Count(d, desc_path, described, n)) :
                          described \in Stats(d, desc_path, n)}
             Described(o) ==
                 UNION {IF there
                        THEN Tested(o.disk, Count(o.disk, dir_path, there, o.refused))
                        ELSE {[o EXCEPT !.refused = Count(o.disk, dir_path, there, @)]} :
                          there \in Stats(o.disk, dir_path, o.refused)}
         IN DescribeEach(UNION {IF o.raised THEN {o} ELSE Described(o) : o \in outcomes},
                         g, Tail(dirs))

DescribeTopLevel ==
    /\ pc = "running" /\ todo # <<>> /\ Head(todo).op = "top_level"
    /\ Step(DescribeEach({[disk |-> disk, raised |-> FALSE, refused |-> 0]},
                         game_dir, top_level_dirs))

\* One key of the engine's structure: a file when its last name has a dot,
\* a directory with its description.txt otherwise
EngineEntry(d, g, key) ==
    LET directory == IF find(key, "[GameName]") # -1
                     THEN replace(key, "[GameName]", os_path_basename(g))
                     ELSE key
        dir_path == os_path_join(g, directory)
    IN IF find(os_path_basename(directory), ".") # -1
       THEN MakeAndOpen(d, os_path_dirname(dir_path), os_path_join(g, directory))
       ELSE MakeAndOpen(d, dir_path, os_path_join(dir_path, "description.txt"))

CreateEngineEntry ==
    /\ pc = "running" /\ todo # <<>> /\ Head(todo).op = "engine"
    /\ Step(EngineEntry(disk, game_dir, Head(todo).arg))

\* One of the files written last; the cleanup script makes its directory
\* first
WriteProjectFile ==
    /\ pc = "running" /\ todo # <<>> /\ Head(todo).op = "file"
    /\ LET file_path == os_path_join(game_dir, Head(todo).arg)
       IN IF Head(todo).arg = "Scripts/Tools/cleanup_tmp.py"
          THEN Step(MakeAndOpen(disk, os_path_dirname(file_path), file_path))
          ELSE Step(open(disk, file_path))

\* return game_dir
Return ==
    /\ pc = "running" /\ todo = <<>>
    /\ pc' = "returned"
    /\ UNCHANGED <<generatorVars, mainVars, callArgs, game_dir, disk, todo>>

NextScaffold ==
    \/ CreateGameDir
    \/ CreateDirectory
    \/ DescribeTopLevel
    \/ CreateEngineEntry
    \/ WriteProjectFile
    \/ Return

SpecScaffold == InitScaffold /\ [][NextScaffold]_vars

----------------------------------------------------------------------------
(* main of the scaffolder: the arguments, the root directory, the call of  *)
(* create_game_directory_structure, the exit code                          *)

\* s.split(sep) for a sep of one character
RECURSIVE split(_, _)
split(s, sep) ==
    LET i == find(s, sep)
    IN IF i = -1 THEN <<s>>
       ELSE <<SubSeq(s, 1, i)>> \o split(SubSeq(s, i + 2, Len(s)), sep)

\* s.strip(), for the space
RECURSIVE lstrip(_, _)
lstrip(s, ch) ==
    IF startswith(s, ch) /\ s # "" THEN lstrip(SubSeq(s, 2, Len(s)), ch) ELSE s
strip(s) == lstrip(rstrip(s, " "), " ")

\* s.lower(), for the letters of the answers
RECURSIVE lower(_)
lower(s) ==
    IF s = "" THEN ""
    ELSE (CASE SubSeq(s, 1, 1) = "Y" -> "y"
            [] SubSeq(s, 1, 1) = "N" -> "n"
            [] OTHER -> SubSeq(s, 1, 1)) \o lower(SubSeq(s, 2, Len(s)))

\* The game names main gets from --game-name or from the prompt
MainGameNames == GameNames \cup {""}

\* What --platforms or the prompt gives
PlatformStrings == {"", "Windows", "Web, Web", "Windows,MacOS,Linux"}

\* What the user answers to "Create it? (y/n)"
Answers == {"y", "Y", "n", ""}

\* platforms = [p.strip() for p in platforms_str.split(",")], or the default
ProcessPlatforms(platforms_str) ==
    IF platforms_str # ""
    THEN [i \in 1..Len(split(platforms_str, ",")) |-> strip(split(platforms_str, ",")[i])]
    ELSE <<"Windows", "MacOS", "Linux">>

\* What main prints, by the first line of each message
UsageExamples == "Usage Examples:"
EmptyGameName == "Error: Game name cannot be empty."
ErrorCreatingDirectory == "Error creating directory"
OperationCancelled == "Operation cancelled."
CreatedSuccessfully == "Game directory structure created successfully at: "
ErrorCreatingStructure == "Error creating game directory structure"

\* main is entered: the game name, the root directory and the engine are
\* what the arguments or the prompts give
InitCreate ==
    /\ InitIdle
    /\ NoMain
    /\ min_dir_size = Inf
    /\ max_dir_size = 1
    /\ min_color = MIN_COLOR
    /\ mid_color = MID_COLOR
    /\ max_color = MAX_COLOR
    /\ arg = None
    /\ pc = "parse_args"
    /\ game_name \in MainGameNames
    /\ root_directory = RootDirectory
    /\ engine \in Engines
    /\ platforms = <<>>
    /\ game_dir = None
    /\ disk \in Disks
    /\ todo = <<>>

\* A return that always gives 0
ExitZero(message, code) ==
    /\ stdout' = Append(stdout, message)
    /\ exit_code' = 0
    /\ pc' = "exited"

\* print(message) and return code
Exit(message, code) ==
    /\ stdout' = Append(stdout, message)
    /\ exit_code' = code
    /\ pc' = "exited"

\* main up to os.path.exists(root_dir): --examples, the platforms, the test
\* of the game name, and what os.path.exists answers for the root directory
ParseArgs ==
    /\ pc = "parse_args"
    /\ \E examples \in BOOLEAN, platforms_str \in PlatformStrings :
         IF examples
         THEN /\ Exit(UsageExamples, 0)
              /\ platforms' = platforms
         ELSE /\ platforms' = ProcessPlatforms(platforms_str)
              /\ IF game_name = ""
                 THEN Exit(EmptyGameName, 1)
                 ELSE /\ \E found \in exists(disk, root_directory) :
                           pc' = IF found
                                 THEN "create_game_directory_structure"
                                 ELSE "create_root"
                      /\ UNCHANGED mainVars
    /\ UNCHANGED <<generatorVars, game_name, root_directory, engine, game_dir, disk, todo>>

\* os.path.exists(root_dir) has answered False: the answer of the user, and
\* os.makedirs(root_dir) in its try
CreateRoot ==
    /\ pc = "create_root"
    /\ \E create_dir \in Answers :
         IF lower(create_dir) = "y"
         THEN \E done \in makedirs(disk, root_directory) :
                 /\ disk' = done.disk
                 /\ IF done.raised
                    THEN Exit(ErrorCreatingDirectory, 1)
                    ELSE /\ pc' = "create_game_directory_structure"
                         /\ UNCHANGED mainVars
         ELSE Exit(OperationCancelled, 0) /\ disk' = disk
    /\ UNCHANGED <<generatorVars, callArgs, game_dir, todo>>

\* create_game_directory_structure has returned: the report, return 0
ReportCreated ==
    /\ pc = "returned"
    /\ Exit(CreatedSuccessfully \o game_dir, 0)
    /\ UNCHANGED <<generatorVars, callArgs, game_dir, disk, todo>>

\* except Exception as e: the error, return 1
ReportError ==
    /\ pc = "raised"
    /\ Exit(ErrorCreatingStructure, 1)
    /\ UNCHANGED <<generatorVars, callArgs, game_dir, disk, todo>>

NextCreate ==
    \/ ParseArgs
    \/ CreateRoot
    \/ CreateGameDir
    \/ CreateDirectory
    \/ DescribeTopLevel
    \/ CreateEngineEntry
    \/ WriteProjectFile
    \/ Return
    \/ ReportCreated
    \/ ReportError

SpecCreate == InitCreate /\ [][NextCreate]_vars

----------------------------------------------------------------------------
(* Properties of the scan and the tree build *)

\* build_directory_tree has returned
Built ==
    \/ pc \in {"generate", "write", "done", "write_raised"}
    \/ pc = "crashed" /\ error = "OverflowError"

\* scan_directory_sizes has returned
Scanned ==
    /\ pc # "scan"
    /\ pc = "crashed" => error \notin {"PermissionError", "FileNotFoundError"}

NodeIds == DOMAIN TreeData

\* How often id is in the children list of the node p
Occurrences(p, id) ==
    Cardinality({i \in 1..Len(TreeData[p].children) : TreeData[p].children[i] = id})

RECURSIVE SumOccurrences(_, _)
SumOccurrences(ps, id) ==
    IF ps = {} THEN 0
    ELSE LET p == CHOOSE x \in ps : TRUE
         IN Occurrences(p, id) + SumOccurrences(ps \ {p}, id)

\* C1: after the scan and the build, the node mapping has exactly one node
\* without a parent, and the id of every other node is exactly once in the
\* children lists of the whole mapping.
C1_TreeInvariant ==
    Built =>
        /\ Cardinality({id \in NodeIds : TreeData[id].parent = None}) = 1
        /\ \A id \in NodeIds :
             TreeData[id].parent # None => SumOccurrences(NodeIds, id) = 1

\* The files of the snapshot that was scanned: the document save_svg writes
\* after the scan is not one of them
Snapshot == {f \in fsFiles : ~IsOutput(f)}

\* The files below the directory d (d included), as the snapshot has them
FilesBelow(d) == {f \in Snapshot : IsPrefix(d, f.dir)}

\* Every directory from d down to the directory of f can be listed
ListableDownTo(d, f) ==
    \A k \in Len(d)..Len(f.dir) : SubSeq(f.dir, 1, k) \notin fsDenied

\* C2 as stated: the size of every node is the sum of the sizes of all the
\* files below its directory, a file whose stat fails counting zero.
C2_SizeIsSumOfAllFiles ==
    Built =>
        \A id \in NodeIds :
            TreeData[id].size = SumSet({f \in FilesBelow(TreeData[id].path) : f.ok})

\* C2 as amended: the size of every node is the sum of the sizes of the
\* files below its directory, where a file whose stat fails counts zero and
\* so does every file in or below a directory whose listing fails.
C2_SizeIsSumOfListedFiles ==
    Built =>
        \A id \in NodeIds :
            TreeData[id].size =
                SumSet({f \in FilesBelow(TreeData[id].path) :
                          f.ok /\ ListableDownTo(TreeData[id].path, f)})

\* A node of size > 0 with a file below it that is not counted
C2_Witness ==
    /\ Built
    /\ \E id \in NodeIds :
         /\ TreeData[id].size > 0
         /\ \E f \in FilesBelow(TreeData[id].path) :
              ~(f.ok /\ ListableDownTo(TreeData[id].path, f))

\* The name a is before the name b by code points: at the first place where
\* they differ, or a ends there
Before(a, b) ==
    \E k \in 1..(Len(a) + 1) :
        /\ \A j \in 1..(k - 1) : j <= Len(b) /\ a[j] = b[j]
        /\ IF k > Len(a) THEN Len(b) >= k
           ELSE k <= Len(b) /\ a[k] < b[k]

\* C3: the children list of every node whose directory can be listed holds
\* the ids of its subdirectories, in the code point order of their names,
\* whatever the order in which the filesystem lists them.
C3_ChildrenSorted ==
    Built =>
        \A id \in NodeIds :
            LET d == TreeData[id].path
                ch == TreeData[id].children
            IN d \notin fsDenied =>
                 \E names \in Perms(ChildNames(fsDirs, d)) :
                    /\ \A i, j \in 1..Len(names) : i < j => Before(names[i], names[j])
                    /\ ch = [i \in 1..Len(names) |-> generate_id(join(d, names[i]))]

\* The root lists "a" before "B" and its children are id(B), id(a)
C3_Witness ==
    /\ Built
    /\ fsOrder[<<>>] = <<<<97>>, <<66>>>>
    /\ <<>> \notin fsDenied
    /\ node_objs[<<>>].children = <<generate_id(<<<<66>>>>), generate_id(<<<<97>>>>)>>
    /\ TreeData[generate_id(<<>>)].path = <<>>

\* Every directory above d can be listed
ListableAbove(d) == \A k \in 0..(Len(d) - 1) : SubSeq(d, 1, k) \notin fsDenied

\* C4: a PermissionError or FileNotFoundError of a listing never leaves the
\* scan or the build; once the scan has returned, every directory that can be
\* listed, as can all above it, has its size recorded; once the build has
\* returned, every directory below listable ones has a node, and the node of
\* a directory that cannot be listed has no children.
C4_ListingErrorsAbsorbed ==
    /\ pc # "write_raised" => error \notin {"PermissionError", "FileNotFoundError"}
    /\ pc # "scan" =>
         \A d \in fsDirs :
            (ListableAbove(d) /\ d \notin fsDenied) => d \in DOMAIN dir_sizes
    /\ Built =>
         \A d \in fsDirs :
            ListableAbove(d) =>
                /\ d \in DOMAIN node_objs
                /\ d \in fsDenied => node_objs[d].children = <<>>

\* A directory that cannot be listed, beside a sibling that has a
\* subdirectory: all of them have their node, the sibling's is complete.
C4_Witness ==
    /\ Built
    /\ \E u \in fsDenied :
         /\ u # <<>>
         /\ node_objs[u].children = <<>>
         /\ \E s \in fsDirs :
              /\ s # u
              /\ Len(s) = Len(u)
              /\ SubSeq(s, 1, Len(s) - 1) = SubSeq(u, 1, Len(u) - 1)
              /\ \E n \in Names :
                   /\ join(s, n) \in DOMAIN node_objs
                   /\ join(s, n) \in DOMAIN dir_sizes
                   /\ node_objs[s].children = <<generate_id(join(s, n))>>

\* C5: on a root whose directories are all empty, save_svg does not end with
\* an exception.
C5_EmptyDirectoriesComplete ==
    Snapshot = {} => pc # "crashed"

Yellow == <<"#", "f", "f", "f", "f", "0", "0">>

\* C6: when all scanned directories have one size, every node has the mid
\* color #ffff00; and whenever max_dir_size <= min_dir_size after the scan,
\* get_color_for_size answers the mid color for every size.
C6_DegenerateIsMidColor ==
    /\ (Built /\ \A a, b \in DOMAIN dir_sizes : dir_sizes[a] = dir_sizes[b]) =>
          \A d \in DOMAIN node_objs : node_objs[d].color = Yellow
    /\ (Scanned /\ max_dir_size <= min_dir_size) =>
          \A size \in 0..(MaxFiles + 1) : get_color_for_size(size) = Yellow

\* Two scanned directories of one size > 0, and a node that was not scanned
\* or has that size
C6_Witness ==
    /\ Built
    /\ Cardinality(DOMAIN dir_sizes) >= 2
    /\ \A a, b \in DOMAIN dir_sizes : dir_sizes[a] = dir_sizes[b] /\ dir_sizes[a] > 0
    /\ max_dir_size = min_dir_size
    /\ \A d \in DOMAIN node_objs : node_objs[d].color = Yellow

----------------------------------------------------------------------------
(* Properties of get_color_for_size and format_size *)

\* get_color_for_size took its first return
Degenerate == max_dir_size <= min_dir_size \/ min_dir_size = Inf

\* The channel k of the color between the colors from and to, at fnum / den
\* of the way, the fraction dropped
Between(from, to, k, fnum, den) == IntOf(from[k] * den + fnum * (to[k] - from[k]), den)

\* C7: past the degenerate case, for every size and every ramp, each of the
\* three channels is the truncated interpolation between low and mid at t * 2
\* when t <= 0.5 and between mid and high at (t - 0.5) * 2 when t > 0.5,
\* where t = (size - min) / (max - min) clamped to [0, 1].
C7_EveryChannelInterpolated ==
    (pc = "returned" /\ ~Degenerate) =>
        LET den == max_dir_size - min_dir_size
            tnum == IF arg < min_dir_size THEN 0
                    ELSE IF arg > max_dir_size THEN den
                    ELSE arg - min_dir_size
        IN result =
             IF 2 * tnum <= den
             THEN ColorText(Between(min_color, mid_color, 1, 2 * tnum, den),
                            Between(min_color, mid_color, 2, 2 * tnum, den),
                            Between(min_color, mid_color, 3, 2 * tnum, den))
             ELSE ColorText(Between(mid_color, max_color, 1, 2 * tnum - den, den),
                            Between(mid_color, max_color, 2, 2 * tnum - den, den),
                            Between(mid_color, max_color, 3, 2 * tnum - den, den))

\* C8: for a ramp with all channels in [0, 255], the color is '#' and then
\* exactly six hex digits.
C8_SixHexDigits ==
    pc = "returned" =>
        /\ Len(result) = 7
        /\ result[1] = "#"
        /\ \A i \in 2..7 : result[i] \in Range(HexDigits)

\* C9: format_size gives "0 B" for 0, "1023 B" for 1023, "1.0 KB" for 1024
\* and "1.0 MB" for 1024 * 1024.
C9_UnitBoundaries ==
    pc = "returned" =>
        /\ arg = 0 => result = <<"0", " ", "B">>
        /\ arg = 1023 => result = <<"1", "0", "2", "3", " ", "B">>
        /\ arg = 1024 => result = <<"1", ".", "0", " ", "K", "B">>
        /\ arg = 1024 * 1024 => result = <<"1", ".", "0", " ", "M", "B">>

----------------------------------------------------------------------------
(* Properties of two runs *)

\* C10: the mapping the second run builds over the unchanged snapshot is the
\* mapping the first run built: the same ids, each with the same path, size,
\* color, parent and children.
C10_SecondRunBuildsTheSame ==
    (run = 2 /\ pc = "generate") => TreeData = first_tree

\* A second run that was listed "a" before "B" at the root and built three
\* nodes or more, not all of one color
C10_Witness ==
    /\ run = 2
    /\ pc = "generate"
    /\ fsOrder[<<>>] = <<<<97>>, <<66>>>>
    /\ Cardinality(NodeIds) >= 3
    /\ \E a, b \in NodeIds : TreeData[a].color # TreeData[b].color
    /\ TreeData = first_tree

----------------------------------------------------------------------------
(* Properties of the script of the document *)

\* The children of the nodes ps, by their children lists
ChildrenOf(ps) == UNION {Range(treeData[p].children) : p \in ps}

RECURSIVE Below(_, _)
Below(ps, k) ==
    IF k = 0 \/ ps = {} THEN {}
    ELSE ChildrenOf(ps) \cup Below(ChildrenOf(ps), k - 1)

\* The descendants of the node n, at every depth
Descendants(n) == Below({n}, Cardinality(DOMAIN treeData))

\* The nodes without a parent
Roots == {id \in DOMAIN treeData : treeData[id].parent = None}

\* C11: when the page has loaded, the root is expanded and no other node
\* is; the root and its direct children are visible and no other node is.
C11_InitialStates ==
    (pc = "page" /\ event.type = "load") =>
        \E r \in Roots :
            \A id \in DOMAIN treeData :
                /\ nodeStates[id].expanded = (id = r)
                /\ nodeStates[id].visible = (id = r \/ id \in ChildrenOf({r}))

\* C12: a click on an expanded node n leaves n collapsed and every
\* descendant of n, at every depth, invisible and collapsed.
C12_CollapseHidesSubtree ==
    [][(event'.type = "click" /\ nodeStates[event'.id].expanded) =>
          /\ ~nodeStates'[event'.id].expanded
          /\ \A d \in Descendants(event'.id) :
                ~nodeStates'[d].visible /\ ~nodeStates'[d].expanded]_vars

\* A click has collapsed a node that is above a node two levels down, which
\* has been drawn before and is invisible now
C12_Witness ==
    /\ pc = "page"
    /\ event.type = "click"
    /\ ~nodeStates[event.id].expanded
    /\ \E c \in ChildrenOf({event.id}) : \E g \in ChildrenOf({c}) :
         /\ g \in DOMAIN layout
         /\ ~nodeStates[g].visible
         /\ ~nodeStates[c].visible

\* C13: a click on a collapsed node n leaves n expanded and its immediate
\* children visible; the visible flag of every node that is not a child of
\* n and the expanded flag of every node but n are as they were.
C13_ExpandShowsChildrenOnly ==
    [][(event'.type = "click" /\ ~nodeStates[event'.id].expanded) =>
          /\ nodeStates'[event'.id].expanded
          /\ \A id \in DOMAIN treeData :
                /\ id \in ChildrenOf({event'.id}) => nodeStates'[id].visible
                /\ id \notin ChildrenOf({event'.id}) =>
                      nodeStates'[id].visible = nodeStates[id].visible
                /\ id # event'.id => nodeStates'[id].expanded = nodeStates[id].expanded]_vars

\* A click has expanded a node that is not the root and has a child with a
\* child: the child is visible and collapsed, the node below it invisible
C13_Witness ==
    /\ pc = "page"
    /\ event.type = "click"
    /\ nodeStates[event.id].expanded
    /\ event.id \notin Roots
    /\ \E c \in ChildrenOf({event.id}) : \E g \in ChildrenOf({c}) :
         /\ nodeStates[c].visible
         /\ ~nodeStates[c].expanded
         /\ ~nodeStates[g].visible

\* The text s in lower case
Folded(s) == [i \in 1..Len(s) |-> Lower(s[i])]

\* The text t is in the text s, at some place
Contains(s, t) ==
    \E i \in 1..(Len(s) - Len(t) + 1) : \A j \in 1..Len(t) : s[i + j - 1] = t[j]

\* The node id matches the text typed into the search box
Matches(id, typed) == Contains(Folded(treeData[id].name), Folded(typed))

\* The nodes k parent links above the nodes ps, for k >= 1
RECURSIVE Above(_, _)
Above(ps, k) ==
    LET parents == {treeData[p].parent : p \in ps} \ {None}
    IN IF k = 0 \/ parents = {} THEN {}
       ELSE parents \cup Above(parents, k - 1)

\* The nodes that match the text typed, and their ancestors
OnMatchPaths(typed) ==
    LET matching == {id \in DOMAIN treeData : Matches(id, typed)}
    IN matching \cup Above(matching, Cardinality(DOMAIN treeData))

\* What C14 says of the nodes after a search for the text typed
SearchShowsMatchPaths(typed) ==
    LET shown == OnMatchPaths(typed)
    IN \A id \in DOMAIN treeData :
        /\ Highlights[id] = Matches(id, typed)
        /\ id \in shown => nodeStates[id].visible /\ nodeStates[id].expanded
        /\ id \notin shown => ~nodeStates[id].visible /\ ~nodeStates[id].expanded

\* C14 as stated: after a search with a non-empty term, a node is
\* highlighted iff its lower-cased name contains the term; the matches and
\* their ancestors are visible and expanded; every other node is invisible
\* and collapsed.
C14_SearchNonEmpty ==
    (pc = "page" /\ event.type = "search" /\ event.value # <<>>) =>
        SearchShowsMatchPaths(event.value)

\* Not a space
NonSpace(c) == c # 32

\* C14 as amended: the same after a search with a term that has a character
\* other than a space; a term of spaces alone is a search with the empty
\* string.
C14_SearchNonBlank ==
    (pc = "page" /\ event.type = "search" /\ SelectSeq(event.value, NonSpace) # <<>>) =>
        SearchShowsMatchPaths(event.value)

\* A search has matched a node two levels below the root and not the child
\* of the root above it, which has another child that does not match
C14_Witness ==
    /\ pc = "page"
    /\ event.type = "search"
    /\ \E r \in Roots : \E c \in ChildrenOf({r}) : \E m, o \in ChildrenOf({c}) :
         /\ Matches(m, event.value) /\ Highlights[m] /\ nodeStates[m].visible
         /\ ~Matches(c, event.value) /\ nodeStates[c].visible /\ nodeStates[c].expanded
         /\ ~Matches(r, event.value) /\ nodeStates[r].visible /\ nodeStates[r].expanded
         /\ ~Matches(o, event.value) /\ ~nodeStates[o].visible
         /\ treeData[m].parent = c
         /\ treeData[c].parent = r

\* C15: after a search with the empty string, from any state of the page,
\* the root is expanded and visible, its direct children are visible, every
\* other node is invisible, every node but the root is collapsed and no node
\* is highlighted.
C15_EmptySearchRestoresDefault ==
    (pc = "page" /\ event.type = "search" /\ event.value = <<>>) =>
        \E r \in Roots :
            \A id \in DOMAIN treeData :
                /\ nodeStates[id].expanded = (id = r)
                /\ nodeStates[id].visible = (id = r \/ id \in ChildrenOf({r}))
                /\ ~Highlights[id]

\* The nodes a depth-first visit from the node n at depth d comes to, in
\* its order, each with its depth: n if it is visible and, if n is expanded
\* too, what the visits from its visible children come to
RECURSIVE VisitOrder(_, _), VisitChildren(_, _)
VisitOrder(n, d) ==
    IF ~nodeStates[n].visible THEN <<>>
    ELSE <<[id |-> n, depth |-> d]>> \o
         (IF nodeStates[n].expanded THEN VisitChildren(treeData[n].children, d + 1) ELSE <<>>)

VisitChildren(children, d) ==
    IF children = <<>> THEN <<>>
    ELSE VisitOrder(Head(children), d) \o VisitChildren(Tail(children), d)

\* C16: after every render, the k-th node (k from 0) of the depth-first
\* visit from the root, which goes into the children of expanded nodes only
\* and to visible children only, has y = k * verticalGap + 45, and a visited
\* node at depth d has x = 45 + d * (nodeWidth + horizontalGap).
C16_LayoutSlots ==
    pc = "page" =>
        \A r \in Roots :
            LET order == VisitOrder(r, 0)
            IN \A k \in 1..Len(order) :
                /\ order[k].id \in DOMAIN layout
                /\ layout[order[k].id].y = (k - 1) * verticalGap + 45
                /\ layout[order[k].id].x =
                      45 + order[k].depth * (NODE_WIDTH + horizontalGap)

\* The pairs of nodes that the drawn connectors join
DrawnPairs == {<<c.parent, c.child>> : c \in connections}

\* C17: after every render, the connectors drawn are those from a parent
\* that is visible and expanded to a child of it that is visible, and no
\* others.
C17_ConnectorsDrawn ==
    pc = "page" =>
        \A p, c \in DOMAIN treeData :
            <<p, c>> \in DrawnPairs <=>
                /\ nodeStates[p].visible
                /\ nodeStates[p].expanded
                /\ c \in ChildrenOf({p})
                /\ nodeStates[c].visible

\* A search has left a match visible and expanded whose children are
\* invisible, and a connector from its parent
C17_Witness ==
    /\ pc = "page"
    /\ event.type = "search"
    /\ \E p, m, c \in DOMAIN treeData :
         /\ <<p, m>> \in DrawnPairs
         /\ nodeStates[m].visible /\ nodeStates[m].expanded
         /\ c \in ChildrenOf({m})
         /\ ~nodeStates[c].visible
         /\ <<m, c>> \notin DrawnPairs

\* C18 as stated: a click that collapses an expanded node with visible
\* children leaves every node beneath it invisible, and no drawn connector
\* has the node at either end.
C18_NoConnectorAtCollapsed ==
    [][(/\ event'.type = "click"
        /\ nodeStates[event'.id].expanded
        /\ \E c \in ChildrenOf({event'.id}) : nodeStates[c].visible) =>
          /\ \A d \in Descendants(event'.id) : ~nodeStates'[d].visible
          /\ \A c \in connections' : c.parent # event'.id /\ c.child # event'.id]_vars

\* C18 as amended: such a click leaves every node beneath the node
\* invisible, and no drawn connector starts at the node or has a node
\* beneath it at either end; the connector from the node's parent stays.
C18_NoConnectorBelowCollapsed ==
    [][(/\ event'.type = "click"
        /\ nodeStates[event'.id].expanded
        /\ \E c \in ChildrenOf({event'.id}) : nodeStates[c].visible) =>
          /\ \A d \in Descendants(event'.id) : ~nodeStates'[d].visible
          /\ \A c \in connections' :
                /\ c.parent # event'.id
                /\ c.parent \notin Descendants(event'.id)
                /\ c.child \notin Descendants(event'.id)
          /\ \A c \in connections :
                c.child = event'.id =>
                    \E k \in connections' : k.parent = c.parent /\ k.child = c.child]_vars

\* A click has collapsed a node with two children, both drawn before and
\* invisible now, and the connector from its parent is drawn
C18_Witness ==
    /\ pc = "page"
    /\ event.type = "click"
    /\ ~nodeStates[event.id].expanded
    /\ \E a, b \in ChildrenOf({event.id}) :
         /\ a # b
         /\ {a, b} \subseteq DOMAIN layout
         /\ ~nodeStates[a].visible /\ ~nodeStates[b].visible
    /\ \E c \in connections : c.child = event.id
    /\ \A c \in connections : c.parent # event.id

\* The largest number of a set of numbers
MaxOf(S) == CHOOSE m \in S : \A x \in S : x <= m

\* The far corner of the bounding box of the drawn rects (0 and 0 when
\* there is none), and the margin of 100 and 150
BoundingSize(rects) ==
    <<MaxOf({r.x + NODE_WIDTH : r \in rects} \cup {0}) + 100,
      MaxOf({r.y + NODE_HEIGHT : r \in rects} \cup {0}) + 150>>

\* C19: after every render, the declared size of the document is the
\* bounding box of the nodes drawn in that render plus the margin of 100 and
\* 150, never a size computed for an earlier render and never a NaN.
C19_SizeFitsRender ==
    pc = "page" => svg_size = BoundingSize(nodes)

----------------------------------------------------------------------------
(* Properties of the scaffolder *)

\* The directories of the disk at or below the game directory
InGameDir ==
    {d \in disk.dirs : d = Entry(game_dir) \/ startswith(d, Entry(game_dir) \o "/")}

\* The directories at or below the game directory without a description.txt
Undescribed ==
    {d \in InGameDir : os_path_join(d, "description.txt") \notin disk.files}

\* C20: once create_game_directory_structure has returned, for any engine
\* and any platform list, every directory at or below the game directory,
\* those made as parents of a listed directory included, holds a
\* description.txt.
C20_EveryDirectoryDescribed ==
    pc = "returned" => Undescribed = {}

----------------------------------------------------------------------------
(* Properties of the running minimum and maximum, of main and of the color *)
(* ramp                                                                    *)

\* The sizes scan_directory_sizes has recorded so far
RecordedSizes == {dir_sizes[d] : d \in DOMAIN dir_sizes}

\* The smallest number of a set of numbers
MinOf(S) == CHOOSE m \in S : \A x \in S : m <= x

\* C23: at every point of the scan and after it, min_dir_size is the
\* smallest recorded size above 0 (float('inf') while there is none) and
\* max_dir_size is the largest of 1 and the recorded sizes.
C23_RunningMinMax ==
    /\ min_dir_size = IF {s \in RecordedSizes : s > 0} = {} THEN Inf
                      ELSE MinOf({s \in RecordedSizes : s > 0})
    /\ max_dir_size = MaxOf(RecordedSizes \cup {1})

\* The scan is under way and has recorded a size of 0 and two sizes above
\* 0 that differ
C23_Witness ==
    /\ pc = "scan"
    /\ scan_stack # <<>>
    /\ 0 \in RecordedSizes
    /\ min_dir_size # Inf
    /\ max_dir_size > min_dir_size

\* C25: in every state the zoom buttons lead to from the zoom after load,
\* currentZoom is at least 0.1 (one tenth).
C25_ZoomAtLeastMinimum ==
    pc = "page" => currentZoom >= 1

\* A zoom-out has left the zoom at 0.1
C25_Witness ==
    /\ pc = "page"
    /\ event.type = "zoom-out"
    /\ currentZoom = 1

\* The number a hex digit stands for, and the channel k (1 red, 2 green,
\* 3 blue) of a color '#rrggbb'
HexValue(digit) == (CHOOSE i \in 1..16 : HexDigits[i] = digit) - 1
ChannelOf(color, k) == 16 * HexValue(color[2 * k]) + HexValue(color[2 * k + 1])

\* The ramp is the default one
DefaultRamp == min_color = MIN_COLOR /\ mid_color = MID_COLOR /\ max_color = MAX_COLOR

\* The sizes get_color_for_size is asked about
ColorSizes == 0..(MaxColorSize + 9)

\* size is mapped to a t <= 0.5
InLowerHalf(size) ==
    2 * Max2(0, Min2(max_dir_size - min_dir_size, size - min_dir_size))
        <= max_dir_size - min_dir_size

\* C24: with the default ramp and a min and max that are not degenerate,
\* for sizes s1 < s2 both mapped to t <= 0.5 the green of the color of s2 is
\* at least that of s1, and for s1 < s2 both mapped to t > 0.5 the red and
\* the green of the color of s2 are at most those of s1.
C24_MonotonicHalves ==
    (DefaultRamp /\ ~Degenerate) =>
        \A s1, s2 \in ColorSizes :
            s1 < s2 =>
                /\ (InLowerHalf(s1) /\ InLowerHalf(s2)) =>
                      ChannelOf(get_color_for_size(s2), 2)
                          >= ChannelOf(get_color_for_size(s1), 2)
                /\ (~InLowerHalf(s1) /\ ~InLowerHalf(s2)) =>
                      /\ ChannelOf(get_color_for_size(s2), 1)
                            <= ChannelOf(get_color_for_size(s1), 1)
                      /\ ChannelOf(get_color_for_size(s2), 2)
                            <= ChannelOf(get_color_for_size(s1), 2)

\* A call has returned a color of the upper half that has less red and less
\* green than the color of a smaller size of that half, and in the lower
\* half there are two sizes whose greens differ
C24_Witness ==
    /\ pc = "returned"
    /\ DefaultRamp
    /\ ~Degenerate
    /\ ~InLowerHalf(arg)
    /\ \E s1 \in ColorSizes :
         /\ s1 < arg /\ ~InLowerHalf(s1)
         /\ ChannelOf(result, 1) < ChannelOf(get_color_for_size(s1), 1)
         /\ ChannelOf(result, 2) < ChannelOf(get_color_for_size(s1), 2)
    /\ \E s1, s2 \in ColorSizes :
         /\ s1 < s2 /\ InLowerHalf(s2)
         /\ ChannelOf(get_color_for_size(s1), 2) < ChannelOf(get_color_for_size(s2), 2)


----------------------------------------------------------------------------
(* Properties of the flags of the nodes *)

\* The ids calculateNodePositions has given a position to in the render
\* that made the current drawing
Positioned == Range(Traversal(layout, nodeStates, verticalGap).visibleNodes)

\* C26: in every state of the page after toggles of visible nodes and
\* searches, every visible node other than the root has a parent that is
\* visible and expanded, and every node drawn by renderNodes was given its
\* x and y by calculateNodePositions in the same render.
C26_VisibleUnderExpanded ==
    pc = "page" =>
        /\ \A id \in DOMAIN treeData :
              (nodeStates[id].visible /\ treeData[id].parent # None) =>
                  /\ nodeStates[treeData[id].parent].visible
                  /\ nodeStates[treeData[id].parent].expanded
        /\ \A g \in nodes :
              /\ g.id \in Positioned
              /\ g.x # NaN
              /\ g.y # NaN

\* C27: in every state of the page after toggles of visible nodes and
\* searches, every expanded node is visible, and a node that is not expanded
\* has no visible child.
C27_ExpandedVisible ==
    pc = "page" =>
        \A id \in DOMAIN treeData :
            /\ nodeStates[id].expanded => nodeStates[id].visible
            /\ ~nodeStates[id].expanded =>
                  \A c \in Range(treeData[id].children) : ~nodeStates[c].visible

\* C28: in every state of the page, two toggles in a row of a node that is
\* visible and collapsed leave the expanded and visible flags of every node
\* as they were before the first.
C28_ToggleTwiceRestores ==
    pc = "page" =>
        \A id \in DOMAIN treeData :
            (nodeStates[id].visible /\ ~nodeStates[id].expanded) =>
                toggleNode(toggleNode(nodeStates, id), id) = nodeStates


----------------------------------------------------------------------------
(* Properties of the sizes along the tree *)

\* The sizes of the files directly in the directory d, as the walk adds
\* them: none when d cannot be listed, zero for a file whose stat fails
DirectSize(d) ==
    IF d \in fsDenied THEN 0
    ELSE SumSet({f \in Snapshot : f.dir = d /\ f.ok})

\* The sum of the sizes of the nodes in a children list
RECURSIVE ChildSizes(_)
ChildSizes(children) ==
    IF children = <<>> THEN 0
    ELSE TreeData[Head(children)].size + ChildSizes(Tail(children))

\* C29: on a snapshot that does not change, with the same error outcomes on
\* every access, the size of every node is the sum of the sizes of the files
\* directly in its directory and of the sizes of its child nodes, and it is
\* not smaller than the size of any child node.
C29_SizeIsDirectPlusChildren ==
    Built =>
        \A id \in NodeIds :
            /\ TreeData[id].size =
                  DirectSize(TreeData[id].path) + ChildSizes(TreeData[id].children)
            /\ \A k \in 1..Len(TreeData[id].children) :
                  TreeData[id].size >= TreeData[TreeData[id].children[k]].size


----------------------------------------------------------------------------
(* Properties of main of the visualizer *)

\* C22: when the target is not a directory, main prints the error and
\* returns with nothing scanned, nothing built and no document written; when
\* it is one, the document is written only when the scan and the build have
\* completed, and it holds the tree that was built; a write that the system
\* refuses is after the scan and the build as well, and leaves no document
\* or a part of it.
C22_WriteOnlyAfterScanAndBuild ==
    /\ <<>> \notin fsDirs =>
          /\ pc \in {"main", "exited"}
          /\ dir_sizes = <<>>
          /\ node_objs = <<>>
          /\ directory_tree = <<>>
          /\ html = None
          /\ output_file = None
          /\ fsFiles = {}
          /\ pc = "exited" => stdout = <<NotValidDirectory>>
    /\ (<<>> \in fsDirs /\ pc \in {"main", "scan", "build", "generate", "write", "crashed"}) =>
          /\ output_file = None
          /\ fsFiles = Snapshot
          /\ stdout = <<>>
    /\ (<<>> \in fsDirs /\ pc \in {"done", "exited"}) =>
          /\ scan_stack = <<>>
          /\ generate_id(<<>>) \in DOMAIN directory_tree
          /\ output_file = html
          /\ output_file.treeData = TreeData
          /\ fsFiles \ Snapshot = {Document(DocumentBytes(html))}
          /\ pc = "exited" => stdout = <<GeneratedAt>>
    /\ (<<>> \in fsDirs /\ pc = "write_raised") =>
          /\ scan_stack = <<>>
          /\ generate_id(<<>>) \in DOMAIN directory_tree
          /\ html.treeData = TreeData
          /\ stdout = <<>>
          /\ IF fsFiles = Snapshot
             THEN output_file = None
             ELSE /\ output_file.bytes < DocumentBytes(html)
                  /\ fsFiles \ Snapshot = {Document(output_file.bytes)}

\* main has returned for a target that is not a directory
C22_Witness ==
    /\ pc = "exited"
    /\ <<>> \notin fsDirs
    /\ stdout = <<NotValidDirectory>>


----------------------------------------------------------------------------
(* Properties of main of the scaffolder *)

\* The message main has printed last
LastPrinted(out) == out[Len(out)]

\* create_game_directory_structure has written its last file
StructureCreated ==
    /\ game_dir # None
    /\ todo = <<>>
    /\ Entry(os_path_join(game_dir, ".gitignore")) \in disk.files

\* C21 as stated: main returns 0 exactly when the directory structure was
\* created successfully.
C21_ZeroExactlyWhenCreated ==
    pc = "exited" => (exit_code = 0 <=> StructureCreated)

\* C21 as amended: main returns 0 when the structure was created, and also
\* after --examples and, when os.path.exists has answered False for the
\* root directory (it is not there, or its stat was refused), after the
\* user declined to create it; in these two cases nothing is created.  It
\* returns 1 when the game name is empty, when os.makedirs of the root
\* directory raised and when create_game_directory_structure raised.  After
\* an exception nothing more is written, and no step removes a directory or
\* a file that was there before it.
C21_ExitCodes ==
    [][/\ pc' = "exited" =>
             /\ exit_code' \in {0, 1}
             /\ exit_code' = 0 <=>
                   \/ pc = "returned" /\ StructureCreated
                   \/ pc = "parse_args" /\ LastPrinted(stdout') = UsageExamples
                   \/ pc = "create_root" /\ LastPrinted(stdout') = OperationCancelled
             /\ (exit_code' = 0 /\ pc # "returned") => disk' = disk
             /\ exit_code' = 1 <=>
                   \/ pc = "raised"
                   \/ pc = "parse_args" /\ game_name = ""
                        /\ LastPrinted(stdout') = EmptyGameName
                   \/ pc = "create_root" /\ LastPrinted(stdout') = ErrorCreatingDirectory
       /\ pc \in {"raised", "exited"} => disk' = disk
       /\ disk.dirs \subseteq disk'.dirs
       /\ disk.files \subseteq disk'.files]_vars

\* main has returned 1 after an exception of a later step: directories made
\* before it are below the game directory
C21_Witness ==
    /\ pc = "exited"
    /\ exit_code = 1
    /\ LastPrinted(stdout) = ErrorCreatingStructure
    /\ os_path_join(game_dir, "Assets") \in disk.dirs
    /\ ~StructureCreated

\* C30: for every game name that is not empty, the game directory that is
\* created is a directory directly in the root directory, named by the game
\* name without its spaces, and nothing of the template is written into the
\* root directory itself.
C30_GameDirIsChildOfRoot ==
    (pc \in {"running", "returned", "raised", "exited"} /\ game_dir # None) =>
        /\ Entry(game_dir) # Entry(root_directory)
        /\ os_path_dirname(Entry(game_dir)) = Entry(root_directory)
        /\ os_path_basename(Entry(game_dir)) = replace(game_name, " ", "")
        /\ os_path_join(root_directory, "description.txt") \notin disk.files
        /\ os_path_join(root_directory, "Assets") \notin disk.dirs

=============================================================================
